---- MODULE Spec2Model ----
(***************************************************************************)
(* The Arabic fact-checking pipeline, in five parts:                       *)
(*   - the publish-date resolver (find_published_date /                    *)
(*     extract_published_date), a ranked fallback chain over the URL, the  *)
(*     fetched document's JSON-LD blocks, its meta tags and htmldate;      *)
(*   - the three retrieval procedures that use it: the batch loop          *)
(*     (retrieve_potential_evidence, knowledge_store/main.py),             *)
(*     retrieve_external_evidence under extract_evidence_from_claim, and   *)
(*     retrieve_external_evidence_lc;                                      *)
(*   - the evaluation: the assignment scorer (AVeriTeCEvaluator), the      *)
(*     judged scorer (EV2REvaluator) and the model calls they and the QA   *)
(*     generator make;                                                     *)
(*   - the orchestration: FactCheckingPipeline.run with its checkpoint     *)
(*     files, the status command, and the batch loop that builds the       *)
(*     knowledge store;                                                    *)
(*   - the relevance filter (is_relevant_result), the claim retriever's    *)
(*     query_api and the label-prediction script.                          *)
(* Days are abstract integers; a datetime is a day plus whether it carries *)
(* a time zone (tzinfo). Similarity scores are tenths; a utility is a      *)
(* fraction num / den of tenths.                                           *)
(***************************************************************************)
EXTENDS Integers, Sequences, FiniteSets, TLC

VARIABLES
    page,             \* resolver: the URL and what has been read of its document so far
    res,              \* resolver: the value find_published_date returned
    dpc,              \* resolver: "idle" | "run" | "done"
    mode,             \* retrieval: "batch" | "external" | "lc" | "none"
    claim,            \* retrieval: the claim being processed
    hits,             \* retrieval: what the search returns for the claim's text
    pc,               \* retrieval: position in the procedure
    retries,          \* retrieval: the retry counter of the running call
    pos,              \* retrieval: index of the next hit of the running attempt
    results,          \* retrieval: claim_results / results of the running call
    knowledge_store,  \* retrieval: the batch loop's output list
    returned,         \* retrieval: the list the last finished call returned
    waits,            \* retrieval: the backoff sleeps of the running call, in order
    attempts,         \* retrieval: search attempts made for the claim, over all calls
    calls,            \* retrieval: calls of retrieve_external_evidence for the claim
    log,              \* retrieval: what happened in the running call
    evaluator,        \* evaluation: the function that runs, or "none"
    meteor,           \* evaluation: the pairwise metric, a table over pairs of texts
    nclaims,          \* evaluation: len(srcs), the number of claims of the corpus
    idbase,           \* evaluation: the ClaimID of the first row (row k has idbase + k)
    row,              \* evaluation: the QA lists of the claim being scored
    idx,              \* evaluation: the loop index i
    epc,              \* evaluation: position in the function
    util,             \* evaluation: the utility computed for the claim
    util0,            \* evaluation: the utility computed for the claim as first given
    scores,           \* evaluation: the per-claim list the function builds
    responses,        \* evaluation: the judge responses, one record per appended response
    attempt,          \* evaluation: the judge-call attempt counter
    last,             \* evaluation: what the last finished iteration read and computed
    outcome,          \* evaluation: the value the function returned
    escaped,          \* evaluation: the exceptions that left a function uncaught
    pmode,            \* orchestration: "run" | "store" | "none"
    config,           \* orchestration: PipelineConfig
    files,            \* orchestration: the files of the run directory
    run_results,      \* orchestration: the keys of self.results, in insertion order
    ppc,              \* orchestration: position in run / in the store loop
    events,           \* orchestration: what has happened, in order
    error_state,      \* orchestration: the content of error_state.json
    nitems,           \* orchestration: the number of claims to process
    item,             \* orchestration: claims (store) or batches (run) processed so far
    store,            \* orchestration: the accumulating output (knowledge_store / step dict)
    saved,            \* orchestration: the accumulated output as it is on disk
    tries,            \* orchestration: the retry counter of the store loop
    seen,             \* orchestration: the claims read so far that had text and a date
    result,           \* filter: the search hit given to is_relevant_result
    claim_text,       \* filter: the claim text given to is_relevant_result
    verdict,          \* filter: what is_relevant_result returned, or "none"
    status,           \* cli: what the last status command reported
    max_retries,      \* query_api: self.max_retries
    query_attempt,    \* query_api: the loop variable attempt
    retry_delay,      \* query_api: the delay of the next sleep
    last_exception,   \* query_api: the exception caught last, or "None"
    qpc,              \* query_api: position in the call
    qlog              \* query_api: the requests, their outcomes and the sleeps, in order

dvars == <<page, res, dpc>>
rvars == <<mode, claim, hits, pc, retries, pos, results, knowledge_store,
           returned, waits, attempts, calls, log>>
evars == <<evaluator, meteor, nclaims, idbase, row, idx, epc, util, util0,
           scores, responses, attempt, last, outcome, escaped>>
pvars == <<pmode, config, files, run_results, ppc, events, error_state,
           nitems, item, store, saved, tries, seen>>
avars == <<result, claim_text, verdict, status, max_retries, query_attempt,
           retry_delay, last_exception, qpc, qlog>>
vars == <<page, res, dpc, mode, claim, hits, pc, retries, pos, results,
          knowledge_store, returned, waits, attempts, calls, log,
          evaluator, meteor, nclaims, idbase, row, idx, epc, util, util0,
          scores, responses, attempt, last, outcome, escaped,
          pmode, config, files, run_results, ppc, events, error_state,
          nitems, item, store, saved, tries, seen,
          result, claim_text, verdict, status, max_retries, query_attempt,
          retry_delay, last_exception, qpc, qlog>>

----------------------------------------------------------------------------
(* Bounds of the model *)
MaxDay == 3
MaxScripts == 2
MaxHits == 3
MaxLcLen == 6

(* Program constants *)
MAX_RETRIES == 3
BACKOFF_FACTOR == 2
MaxResults == 5
EmptyRetries == 2

Days == 1..MaxDay

----------------------------------------------------------------------------
(* Datetimes *)

\* None
Null == [day |-> 0, aware |-> FALSE]

IsNull(dt) == dt.day = 0

\* if dt.tzinfo is None: dt = dt.replace(tzinfo=pytz.UTC)
AssignUTC(dt) ==
    IF dt.aware THEN dt ELSE [dt EXCEPT !.aware = TRUE]

\* A date string found in a document: its script, the day it denotes
\* (0: no parser reads a date in it) and, for a date, whether it states a
\* zone.
Values ==
    [script : {"latin", "arabic"}, day : {0}, tz : {FALSE}]
    \cup [script : {"latin", "arabic"}, day : 1..MaxDay, tz : BOOLEAN]

NoValue == [script |-> "latin", day |-> 0, tz |-> FALSE]

\* Outcome of a step of the resolver: a date, an exception, or nothing.
Got(dt) == [st |-> "date", dt |-> dt]
Raised == [st |-> "raise", dt |-> Null]
Nothing == [st |-> "none", dt |-> Null]

\* dateutil.parser.parse(text, fuzzy=True): raises on text without a date,
\* otherwise the datetime, aware only when the text states a zone.
date_parse(v) ==
    IF v.day = 0 THEN Raised ELSE Got([day |-> v.day, aware |-> v.tz])

\* parse_arabic_date: month names and AM/PM markers are mapped to Latin, then
\* date_parse; a parse failure is caught and None is returned.
parse_arabic_date(v) ==
    LET r == date_parse([v EXCEPT !.script = "latin"])
    IN  IF r.st = "raise" THEN Null ELSE AssignUTC(r.dt)

\* The body shared by the datePublished branches: Arabic text goes through
\* parse_arabic_date, whose None makes dt.tzinfo raise AttributeError.
ParseDatePublished(v) ==
    LET dt == IF v.script = "arabic"
                THEN Got(parse_arabic_date(v))
                ELSE date_parse(v)
    IN  IF dt.st = "raise" \/ IsNull(dt.dt) THEN Raised
        ELSE Got(AssignUTC(dt.dt))

----------------------------------------------------------------------------
(* The publish-date resolver *)

\* What re.search(r"(\d{4})[/-](\d{2})[/-](\d{2})", url) finds: no match, or
\* three digit groups denoting day `day` (0: digits that are no date, such as
\* a month 13).
Urls == [match : BOOLEAN, day : 0..MaxDay]

\* A JSON-LD script block: text that is not JSON ("invalid"), an object with
\* datePublished ("dict"), an object without it but with an @graph list
\* ("graph"), a list ("list"), or any other object ("other"). For "graph" and
\* "list", has tells whether some item carries datePublished and v is the
\* value of the first such item.
Blocks ==
    {[form |-> f, has |-> FALSE, v |-> NoValue] :
        f \in {"invalid", "graph", "list", "other"}}
    \cup [form : {"dict", "graph", "list"}, has : {TRUE}, v : Values]

\* The first <meta> tag with content among meta_names, then meta_props; the
\* stage reads its content with date_parse alone, whatever its script.
Metas ==
    {[read |-> TRUE, present |-> FALSE, v |-> NoValue]}
    \cup [read : {TRUE}, present : {TRUE},
          v : {v \in Values : v.script = "latin"}]

UnreadMeta == [read |-> FALSE, present |-> FALSE, v |-> NoValue]

\* What htmldate's find_date does for the URL: raises, finds nothing, or
\* returns a YYYY-MM-DD string.
HtmlDates ==
    {[read |-> TRUE, st |-> s, day |-> 0] : s \in {"raise", "none"}}
    \cup [read : {TRUE}, st : {"date"}, day : Days]

UnreadHtmlDate == [read |-> FALSE, st |-> "none", day |-> 0]

\* Stage 1, the URL-embedded date. A parse failure is caught and printed.
UrlStage(url) ==
    IF ~url.match THEN Nothing
    ELSE LET r == date_parse([script |-> "latin", day |-> url.day, tz |-> FALSE])
         IN  IF r.st = "raise" THEN Raised ELSE Got(AssignUTC(r.dt))

\* The body of the loop over JSON-LD scripts, for one script; an exception
\* makes the loop continue with the next script.
ScriptResult(b) ==
    IF b.form = "invalid" THEN Raised
    ELSE IF b.form = "dict" THEN ParseDatePublished(b.v)
    ELSE IF b.form = "graph"
      THEN (IF b.has THEN ParseDatePublished(b.v) ELSE Nothing)
    ELSE IF b.form = "list"
      THEN (IF b.has THEN Raised ELSE Nothing)
    ELSE Nothing

\* Stage 2 over the scripts from index i on: the first script that yields a
\* date ends it; raisedSoFar records a swallowed exception.
RECURSIVE JsonLdFrom(_, _, _)
JsonLdFrom(scripts, i, raisedSoFar) ==
    IF i > Len(scripts)
      THEN (IF raisedSoFar THEN Raised ELSE Nothing)
      ELSE LET r == ScriptResult(scripts[i])
           IN  IF r.st = "date" THEN r
               ELSE JsonLdFrom(scripts, i + 1, raisedSoFar \/ r.st = "raise")

JsonLdStage(scripts) == JsonLdFrom(scripts, 1, FALSE)

\* Stage 3: date_parse of the first meta tag with content; its exception is
\* not caught in the stage.
MetaStage(meta) ==
    IF ~meta.present THEN Nothing
    ELSE LET r == date_parse(meta.v)
         IN  IF r.st = "raise" THEN Raised ELSE Got(AssignUTC(r.dt))

\* Stage 4: find_date, then date_parse of its string, inside one try.
HtmlDateStage(h) ==
    IF h.st = "raise" THEN Raised
    ELSE IF h.st = "none" THEN Nothing
    ELSE LET r == date_parse([script |-> "latin", day |-> h.day, tz |-> FALSE])
         IN  IF r.st = "raise" THEN Raised ELSE Got(AssignUTC(r.dt))

\* The value of a resolver run: need names the part of the document the run
\* reads next ("" when the run has returned), dt is the returned date, by the
\* stage that produced it (0: none), s1..s4 what each stage did ("untried",
\* "nodoc" for a stage skipped because no document was obtained, "none",
\* "raise", "date").
Outcome(need, dt, by, s1, s2, s3, s4) ==
    [need |-> need, dt |-> dt, by |-> by,
     s1 |-> s1, s2 |-> s2, s3 |-> s3, s4 |-> s4]

\* A mutant of extract_published_date: the URL stage's inner try is missing,
\* so its parse failure reaches the outer handler and None is returned.
extract_published_date_noinner(p) ==
    LET u == UrlStage(p.url)
        j == JsonLdStage(p.scripts)
        m == MetaStage(p.meta)
    IN  IF u.st = "date"
          THEN Outcome("", u.dt, 1, "date", "untried", "untried", "untried")
        ELSE IF u.st = "raise"
          THEN Outcome("", Null, 0, "raise", "untried", "untried", "untried")
        ELSE IF p.fetch = "unread"
          THEN Outcome("fetch", Null, 0, u.st, "untried", "untried", "untried")
        ELSE IF p.fetch \in {"raise", "none"}
          THEN Outcome("", Null, 0, u.st, "nodoc", "nodoc", "untried")
        ELSE IF j.st = "date"
          THEN Outcome("", j.dt, 2, u.st, "date", "untried", "untried")
        ELSE IF ~p.scriptsEnd
          THEN Outcome("script", Null, 0, u.st, j.st, "untried", "untried")
        ELSE IF ~p.meta.read
          THEN Outcome("meta", Null, 0, u.st, j.st, "untried", "untried")
        ELSE IF m.st = "date"
          THEN Outcome("", m.dt, 3, u.st, j.st, "date", "untried")
        ELSE Outcome("", Null, 0, u.st, j.st, m.st, "untried")

\* A mutant of extract_published_date: the document is fetched and its
\* JSON-LD consulted before the URL.
extract_published_date_docfirst(p) ==
    LET u == UrlStage(p.url)
        j == JsonLdStage(p.scripts)
        m == MetaStage(p.meta)
    IN  IF p.fetch = "unread"
          THEN Outcome("fetch", Null, 0, "untried", "untried", "untried", "untried")
        ELSE IF p.fetch = "ok" /\ j.st = "date"
          THEN Outcome("", j.dt, 2, "untried", "date", "untried", "untried")
        ELSE IF p.fetch = "ok" /\ ~p.scriptsEnd
          THEN Outcome("script", Null, 0, "untried", j.st, "untried", "untried")
        ELSE IF u.st = "date"
          THEN Outcome("", u.dt, 1, "date",
                       IF p.fetch = "ok" THEN j.st ELSE "nodoc", "untried", "untried")
        ELSE IF p.fetch \in {"raise", "none"}
          THEN Outcome("", Null, 0, u.st, "nodoc", "nodoc", "untried")
        ELSE IF ~p.meta.read
          THEN Outcome("meta", Null, 0, u.st, j.st, "untried", "untried")
        ELSE IF m.st = "date"
          THEN Outcome("", m.dt, 3, u.st, j.st, "date", "untried")
        ELSE Outcome("", Null, 0, u.st, j.st, m.st, "untried")

\* extract_published_date(url): stage 1, then scrape_html, then stages 2 and
\* 3 on the document. scrape_html raising, or returning no document (the
\* loop header then raises AttributeError), ends in the outer handler, which
\* returns None; so does an exception of stage 3.
extract_published_date(p) ==
    LET u == UrlStage(p.url)
        j == JsonLdStage(p.scripts)
        m == MetaStage(p.meta)
    IN  IF u.st = "date"
          THEN Outcome("", u.dt, 1, "date", "untried", "untried", "untried")
        ELSE IF p.fetch = "unread"
          THEN Outcome("fetch", Null, 0, u.st, "untried", "untried", "untried")
        ELSE IF p.fetch \in {"raise", "none"}
          THEN Outcome("", Null, 0, u.st, "nodoc", "nodoc", "untried")
        ELSE IF j.st = "date"
          THEN Outcome("", j.dt, 2, u.st, "date", "untried", "untried")
        ELSE IF ~p.scriptsEnd
          THEN Outcome("script", Null, 0, u.st, j.st, "untried", "untried")
        ELSE IF ~p.meta.read
          THEN Outcome("meta", Null, 0, u.st, j.st, "untried", "untried")
        ELSE IF m.st = "date"
          THEN Outcome("", m.dt, 3, u.st, j.st, "date", "untried")
        ELSE Outcome("", Null, 0, u.st, j.st, m.st, "untried")

\* find_published_date(url): extract_published_date, and htmldate when it
\* returned None.
find_published_date(p) ==
    LET e == extract_published_date(p)
        h == HtmlDateStage(p.htmldate)
    IN  IF e.need # "" \/ ~IsNull(e.dt) THEN e
        ELSE IF ~p.htmldate.read THEN [e EXCEPT !.need = "htmldate"]
        ELSE IF h.st = "date" THEN [e EXCEPT !.dt = h.dt, !.by = 4, !.s4 = "date"]
        ELSE [e EXCEPT !.s4 = h.st]

NoOutcome == Outcome("", Null, 0, "untried", "untried", "untried", "untried")

\* A page of which only the URL is known.
FreshPage(url) ==
    [url |-> url, fetch |-> "unread", scripts |-> <<>>, scriptsEnd |-> FALSE,
     meta |-> UnreadMeta, htmldate |-> UnreadHtmlDate]

IdlePage == FreshPage([match |-> FALSE, day |-> 0])

----------------------------------------------------------------------------
(* The resolver as a process: the run reads the document piece by piece, *)
(* each piece being whatever the web serves at that moment.               *)

ResolverIdle ==
    /\ page = IdlePage
    /\ res = NoOutcome
    /\ dpc = "idle"

\* find_published_date(url) is called.
InitDate ==
    /\ page \in {FreshPage(u) : u \in Urls}
    /\ res = NoOutcome
    /\ dpc = "run"

\* scrape_html(url): a document, no document (error page, Selenium error),
\* or an exception.
Fetch ==
    /\ UNCHANGED <<rvars, evars, pvars, avars>>
    /\ dpc = "run"
    /\ find_published_date(page).need = "fetch"
    /\ \E f \in {"ok", "none", "raise"} : page' = [page EXCEPT !.fetch = f]
    /\ UNCHANGED <<res, dpc>>

\* The loop over soup.find_all("script", type="application/ld+json") reads its
\* next script, or finds there is none left.
ReadScript ==
    /\ UNCHANGED <<rvars, evars, pvars, avars>>
    /\ dpc = "run"
    /\ find_published_date(page).need = "script"
    /\ \/ /\ Len(page.scripts) < MaxScripts
          /\ \E b \in Blocks :
                page' = [page EXCEPT !.scripts = Append(@, b)]
       \/ page' = [page EXCEPT !.scriptsEnd = TRUE]
    /\ UNCHANGED <<res, dpc>>

\* soup.find("meta", ...) over meta_names and meta_props.
ReadMeta ==
    /\ UNCHANGED <<rvars, evars, pvars, avars>>
    /\ dpc = "run"
    /\ find_published_date(page).need = "meta"
    /\ \E m \in Metas : page' = [page EXCEPT !.meta = m]
    /\ UNCHANGED <<res, dpc>>

\* find_date(url, extensive_search=True, original_date=True).
ReadHtmlDate ==
    /\ UNCHANGED <<rvars, evars, pvars, avars>>
    /\ dpc = "run"
    /\ find_published_date(page).need = "htmldate"
    /\ \E h \in HtmlDates : page' = [page EXCEPT !.htmldate = h]
    /\ UNCHANGED <<res, dpc>>

\* find_published_date returns.
ReturnDate ==
    /\ UNCHANGED <<rvars, evars, pvars, avars>>
    /\ dpc = "run"
    /\ find_published_date(page).need = ""
    /\ res' = find_published_date(page)
    /\ dpc' = "done"
    /\ UNCHANGED page

NextDate ==
    \/ Fetch
    \/ ReadScript
    \/ ReadMeta
    \/ ReadHtmlDate
    \/ ReturnDate

----------------------------------------------------------------------------
(* Retrieval: claims, search hits and evidence items *)

\* The day of the claims of the model: strictly inside Days, so that hits
\* dated before it, on it and after it exist.
ClaimDay == MaxDay - 1

FullPage(url, fetch, scripts, meta, htmldate) ==
    [url |-> url, fetch |-> fetch, scripts |-> scripts, scriptsEnd |-> TRUE,
     meta |-> meta, htmldate |-> htmldate]

NoUrlDate == [match |-> FALSE, day |-> 0]
NoMeta == [read |-> TRUE, present |-> FALSE, v |-> NoValue]
HtmlNone == [read |-> TRUE, st |-> "none", day |-> 0]
HtmlRaise == [read |-> TRUE, st |-> "raise", day |-> 0]
Latin(d, tz) == [script |-> "latin", day |-> d, tz |-> tz]

\* The pages the search can point to:
\*  1: the URL embeds day 1, JSON-LD datePublished states the last day;
\*  2: no URL date, an @graph item states the last day, with a zone;
\*  3: no URL date, no JSON-LD, a meta tag states the claim's day;
\*  4: no URL date, the page cannot be loaded and htmldate fails.
Pages ==
    << FullPage([match |-> TRUE, day |-> 1], "ok",
                <<[form |-> "dict", has |-> TRUE, v |-> Latin(MaxDay, FALSE)]>>,
                NoMeta, HtmlNone),
       FullPage(NoUrlDate, "ok",
                <<[form |-> "other", has |-> FALSE, v |-> NoValue],
                  [form |-> "graph", has |-> TRUE, v |-> Latin(MaxDay, TRUE)]>>,
                NoMeta, HtmlNone),
       FullPage(NoUrlDate, "ok", <<>>,
                [read |-> TRUE, present |-> TRUE, v |-> Latin(ClaimDay, FALSE)],
                HtmlNone),
       FullPage(NoUrlDate, "raise", <<>>, NoMeta, HtmlRaise) >>

\* What is_relevant_result reads of a hit: whether a block-list term occurs
\* in its title, snippet or URL, whether title+snippet holds Arabic script,
\* and how many of the claim's keywords occur in title+snippet.
HitTexts ==
    { [blocked |-> FALSE, arabic |-> TRUE, matches |-> 2],
      [blocked |-> FALSE, arabic |-> TRUE, matches |-> 1] }

\* A raw search hit: the page its href points to, and its text.
Hit(pg, t) == [page |-> pg, text |-> t]

HitSet == {Hit(pg, t) : pg \in 1..Len(Pages), t \in HitTexts}

HitLists == UNION {[1..n -> HitSet] : n \in 0..MaxHits}

\* A claim record: whether it has text, and date_parse of its claimDate
\* (Null when the field is missing); the parsed date is used as parsed.
Claims ==
    [text : BOOLEAN,
     date : {Null} \cup [day : {ClaimDay}, aware : BOOLEAN]]

\* An element of a result list: the hit it was made from (its index in the
\* search results, which stands for its URL), whether it is a raw search hit
\* or an evidence record built by the retriever, and the "date" field.
Item(k, kind, dt) == [hit |-> k, kind |-> kind, date |-> dt]

\* The publish date of the k-th hit.
PublishDate(k) == find_published_date(Pages[hits[k].page]).dt

\* is_relevant_result(result, claim_text)
is_relevant_result(h) ==
    /\ ~h.text.blocked
    /\ h.text.arabic
    /\ h.text.matches >= 2

\* Comparing an aware datetime with a naive one raises TypeError.
Comparable(a, b) == a.aware = b.aware

\* publish_date and publish_date < claim_date, for comparable dates
Predates(publish_date, claim_date) ==
    ~IsNull(publish_date) /\ publish_date.day < claim_date.day

\* wait_time = BACKOFF_FACTOR**retries
WaitTime(r) == BACKOFF_FACTOR ^ r

\* A mutant of LoopAgain: one attempt more.
LoopAgain_more(r) == r < MAX_RETRIES + 1

\* while retries < MAX_RETRIES
LoopAgain(r) == r < MAX_RETRIES

\* extract_evidence_from_claim: the call is repeated, at most twice, while
\* it returns nothing; n is the number of calls made.
RetryWhenEmpty(list, n) == list = <<>> /\ n < 1 + EmptyRetries

\* The record kept of a call: the value of attempts when it began, how many
\* of its attempts raised and with what, and how many hits it accepted.
NewLog(base) == [base |-> base, raised |-> 0, kinds |-> {}, accepted |-> 0]

\* A mutant of OnException: the exception of the last attempt is raised to
\* the caller.
OnException_reraise(kind, again, leave) ==
    /\ retries' = retries + 1
    /\ waits' = Append(waits, WaitTime(retries + 1))
    /\ log' = [log EXCEPT !.raised = @ + 1, !.kinds = @ \cup {kind}]
    /\ pc' = IF LoopAgain(retries + 1) THEN again ELSE "raised"

\* The except clause of the retry loops: count, sleep, and loop or leave.
OnException(kind, again, leave) ==
    /\ retries' = retries + 1
    /\ waits' = Append(waits, WaitTime(retries + 1))
    /\ log' = [log EXCEPT !.raised = @ + 1, !.kinds = @ \cup {kind}]
    /\ pc' = IF LoopAgain(retries + 1) THEN again ELSE leave

\* The search attempts of the running call.
Tries == attempts - log.base

----------------------------------------------------------------------------
(* The batch loop: retrieve_potential_evidence, knowledge_store/main.py *)

\* The claim's text and date are read; a claim without either is skipped.
BatchClaim ==
    /\ UNCHANGED <<dvars, evars, pvars, avars>>
    /\ pc = "b_claim"
    /\ retries' = 0
    /\ results' = <<>>
    /\ waits' = <<>>
    /\ log' = NewLog(attempts)
    /\ pc' = IF IsNull(claim.date) \/ ~claim.text THEN "done" ELSE "b_search"
    /\ UNCHANGED <<mode, claim, hits, pos, knowledge_store, returned, attempts,
                   calls>>

\* search.text(claim_text, max_results=5) returns or raises.
BatchSearch ==
    /\ UNCHANGED <<dvars, evars, pvars, avars>>
    /\ pc = "b_search"
    /\ LoopAgain(retries)
    /\ attempts' = attempts + 1
    /\ \/ /\ pos' = 1
          /\ pc' = "b_hits"
          /\ UNCHANGED <<retries, waits, log>>
       \/ /\ OnException("search", "b_search", "b_append")
          /\ UNCHANGED pos
    /\ UNCHANGED <<mode, claim, hits, results, knowledge_store, returned, calls>>

\* One hit of the attempt: its date is resolved and compared with the
\* claim's; the comparison of a naive with an aware datetime raises.
BatchHit ==
    /\ UNCHANGED <<dvars, evars, pvars, avars>>
    /\ pc = "b_hits"
    /\ pos <= Len(hits)
    /\ LET publish_date == PublishDate(pos)
       IN  IF ~IsNull(publish_date) /\ ~Comparable(publish_date, claim.date)
             THEN /\ OnException("TypeError", "b_search", "b_append")
                  /\ UNCHANGED <<pos, results>>
             ELSE /\ IF Predates(publish_date, claim.date)
                       THEN /\ results' = Append(results, Item(pos, "evidence", Null))
                            /\ log' = [log EXCEPT !.accepted = @ + 1]
                       ELSE UNCHANGED <<results, log>>
                  /\ pos' = pos + 1
                  /\ UNCHANGED <<pc, retries, waits>>
    /\ UNCHANGED <<mode, claim, hits, knowledge_store, returned, attempts, calls>>

\* The iteration over the search results raises (a network error of a lazy
\* result stream, a hit without href).
BatchIterRaise ==
    /\ UNCHANGED <<dvars, evars, pvars, avars>>
    /\ pc = "b_hits"
    /\ OnException("iter", "b_search", "b_append")
    /\ UNCHANGED <<mode, claim, hits, pos, results, knowledge_store, returned,
                   attempts, calls>>

\* All hits were seen: break.
BatchBreak ==
    /\ UNCHANGED <<dvars, evars, pvars, avars>>
    /\ pc = "b_hits"
    /\ pos > Len(hits)
    /\ pc' = "b_append"
    /\ UNCHANGED <<mode, claim, hits, retries, pos, results, knowledge_store,
                   returned, waits, attempts, calls, log>>

\* knowledge_store.append({"claim": claim, "evidences": claim_results})
BatchAppend ==
    /\ UNCHANGED <<dvars, evars, pvars, avars>>
    /\ pc = "b_append"
    /\ knowledge_store' =
          Append(knowledge_store, [claim |-> claim, evidences |-> results])
    /\ pc' = "done"
    /\ UNCHANGED <<mode, claim, hits, retries, pos, results, returned, waits,
                   attempts, calls, log>>

----------------------------------------------------------------------------
(* retrieve_external_evidence, called by extract_evidence_from_claim *)

\* retrieve_external_evidence(claim_text) is entered.
ExternalCall ==
    /\ UNCHANGED <<dvars, evars, pvars, avars>>
    /\ pc = "e_call"
    /\ calls' = calls + 1
    /\ results' = <<>>
    /\ retries' = 0
    /\ waits' = <<>>
    /\ log' = NewLog(attempts)
    /\ pc' = "e_search"
    /\ UNCHANGED <<mode, claim, hits, pos, knowledge_store, returned, attempts>>

\* with DDGS() as search: search.text(...) returns or raises.
ExternalSearch ==
    /\ UNCHANGED <<dvars, evars, pvars, avars>>
    /\ pc = "e_search"
    /\ LoopAgain(retries)
    /\ attempts' = attempts + 1
    /\ \/ /\ pos' = 1
          /\ pc' = "e_hits"
          /\ UNCHANGED <<retries, waits, log>>
       \/ /\ OnException("search", "e_search", "e_ret")
          /\ UNCHANGED pos
    /\ UNCHANGED <<mode, claim, hits, results, knowledge_store, returned, calls>>

\* One hit of the attempt: its date is resolved, the hit is filtered, and an
\* accepted hit is recorded with its date, whatever the date.
ExternalHit ==
    /\ UNCHANGED <<dvars, evars, pvars, avars>>
    /\ pc = "e_hits"
    /\ pos <= Len(hits)
    /\ LET publish_date == PublishDate(pos)
       IN  IF is_relevant_result(hits[pos])
             THEN /\ results' = Append(results, Item(pos, "evidence", publish_date))
                  /\ log' = [log EXCEPT !.accepted = @ + 1]
             ELSE UNCHANGED <<results, log>>
    /\ pos' = pos + 1
    /\ UNCHANGED <<mode, claim, hits, pc, retries, knowledge_store, returned,
                   waits, attempts, calls>>

\* The iteration over the search results raises.
ExternalIterRaise ==
    /\ UNCHANGED <<dvars, evars, pvars, avars>>
    /\ pc = "e_hits"
    /\ OnException("iter", "e_search", "e_ret")
    /\ UNCHANGED <<mode, claim, hits, pos, results, knowledge_store, returned,
                   attempts, calls>>

\* All hits were seen: break.
ExternalBreak ==
    /\ UNCHANGED <<dvars, evars, pvars, avars>>
    /\ pc = "e_hits"
    /\ pos > Len(hits)
    /\ pc' = "e_ret"
    /\ UNCHANGED <<mode, claim, hits, retries, pos, results, knowledge_store,
                   returned, waits, attempts, calls, log>>

\* return results; extract_evidence_from_claim calls again when it got
\* nothing.
ExternalReturn ==
    /\ UNCHANGED <<dvars, evars, pvars, avars>>
    /\ pc = "e_ret"
    /\ returned' = results
    /\ pc' = IF RetryWhenEmpty(results, calls) THEN "e_call" ELSE "done"
    /\ UNCHANGED <<mode, claim, hits, retries, pos, results, knowledge_store,
                   waits, attempts, calls, log>>

----------------------------------------------------------------------------
(* retrieve_external_evidence_lc *)

\* results = search.invoke(claim_text), or its exception, which is caught.
LcInvoke ==
    /\ UNCHANGED <<dvars, evars, pvars, avars>>
    /\ pc = "l_invoke"
    /\ attempts' = attempts + 1
    /\ \/ /\ results' = [k \in 1..Len(hits) |-> Item(k, "raw", Null)]
          /\ pos' = 1
          /\ pc' = "l_loop"
          /\ UNCHANGED log
       \/ /\ log' = [log EXCEPT !.raised = 1, !.kinds = {"search"}]
          /\ pc' = "l_ret"
          /\ UNCHANGED <<results, pos>>
    /\ UNCHANGED <<mode, claim, hits, retries, knowledge_store, returned, waits,
                   calls>>

\* One element of results: a relevant one is appended, as an evidence
\* record, to the list being iterated.
LcHit ==
    /\ UNCHANGED <<dvars, evars, pvars, avars>>
    /\ pc = "l_loop"
    /\ pos <= Len(results)
    /\ IF is_relevant_result(hits[results[pos].hit])
         THEN /\ Len(results) < MaxLcLen
              /\ results' = Append(results, Item(results[pos].hit, "evidence", Null))
              /\ log' = [log EXCEPT !.accepted = @ + 1]
         ELSE UNCHANGED <<results, log>>
    /\ pos' = pos + 1
    /\ UNCHANGED <<mode, claim, hits, pc, retries, knowledge_store, returned,
                   waits, attempts, calls>>

\* The loop reached the end of results; the list is written to a file.
LcEnd ==
    /\ UNCHANGED <<dvars, evars, pvars, avars>>
    /\ pc = "l_loop"
    /\ pos > Len(results)
    /\ pc' = "l_ret"
    /\ UNCHANGED <<mode, claim, hits, retries, pos, results, knowledge_store,
                   returned, waits, attempts, calls, log>>

\* return results
LcReturn ==
    /\ UNCHANGED <<dvars, evars, pvars, avars>>
    /\ pc = "l_ret"
    /\ returned' = results
    /\ pc' = "done"
    /\ UNCHANGED <<mode, claim, hits, retries, pos, results, knowledge_store,
                   waits, attempts, calls, log>>

----------------------------------------------------------------------------
(* Specifications *)

RetrievalIdle ==
    /\ mode = "none"
    /\ claim = [text |-> FALSE, date |-> Null]
    /\ hits = <<>>
    /\ pc = "done"
    /\ retries = 0
    /\ pos = 1
    /\ results = <<>>
    /\ knowledge_store = <<>>
    /\ returned = <<>>
    /\ waits = <<>>
    /\ attempts = 0
    /\ calls = 0
    /\ log = NewLog(0)

\* One claim enters one of the three procedures. The batch loop takes claim
\* records as they are; the other two are called with the text of a claim
\* that has a date.
InitRetrieval ==
    /\ mode \in {"batch", "external", "lc"}
    /\ claim \in Claims
    /\ mode # "batch" => claim.text /\ ~IsNull(claim.date)
    /\ hits \in HitLists
    /\ pc = (IF mode = "batch" THEN "b_claim"
             ELSE IF mode = "external" THEN "e_call" ELSE "l_invoke")
    /\ retries = 0
    /\ pos = 1
    /\ results = <<>>
    /\ knowledge_store = <<>>
    /\ returned = <<>>
    /\ waits = <<>>
    /\ attempts = 0
    /\ calls = 0
    /\ log = NewLog(0)

\* No evaluation runs.
NoRow == [src |-> <<>>, tgt |-> <<>>]
NoUtil == [num |-> 0, den |-> 0]
NoLast == [kind |-> "none"]

EvalIdle ==
    /\ evaluator = "none"
    /\ meteor = <<>>
    /\ nclaims = 0
    /\ idbase = 0
    /\ row = NoRow
    /\ idx = 0
    /\ epc = "done"
    /\ util = NoUtil
    /\ util0 = NoUtil
    /\ scores = <<>>
    /\ responses = <<>>
    /\ attempt = 0
    /\ last = NoLast
    /\ outcome = [st |-> "none", means |-> <<>>]
    /\ escaped = {}

\* No pipeline runs.
NoConfig == [enabled |-> <<>>, batch_size |-> 1]
NoErrorState == [written |-> FALSE, completed_steps |-> <<>>]

PipelineIdle ==
    /\ pmode = "none"
    /\ config = NoConfig
    /\ files = {}
    /\ run_results = <<>>
    /\ ppc = "done"
    /\ events = <<>>
    /\ error_state = NoErrorState
    /\ nitems = 0
    /\ item = 0
    /\ store = <<>>
    /\ saved = <<>>
    /\ tries = 0
    /\ seen = <<>>

NoStatus == [reported |-> "none", exc |-> "none"]

\* No call of query_api runs.
QueryIdle ==
    /\ max_retries = 0
    /\ query_attempt = 0
    /\ retry_delay = 0
    /\ last_exception = "None"
    /\ qpc = "idle"
    /\ qlog = <<>>

qvars == <<max_retries, query_attempt, retry_delay, last_exception, qpc, qlog>>

\* No hit is being filtered, no status was asked for.
FilterIdle ==
    /\ result = [title |-> {}]
    /\ claim_text = <<>>
    /\ verdict = "none"
    /\ status = NoStatus

AuxIdle == FilterIdle /\ QueryIdle

Init ==
    ResolverIdle /\ InitRetrieval /\ EvalIdle /\ PipelineIdle /\ AuxIdle

Next ==
    \/ BatchClaim
    \/ BatchSearch
    \/ BatchHit
    \/ BatchIterRaise
    \/ BatchBreak
    \/ BatchAppend
    \/ ExternalCall
    \/ ExternalSearch
    \/ ExternalHit
    \/ ExternalIterRaise
    \/ ExternalBreak
    \/ ExternalReturn
    \/ LcInvoke
    \/ LcHit
    \/ LcEnd
    \/ LcReturn


Spec == Init /\ [][Next]_vars

InitResolver ==
    InitDate /\ RetrievalIdle /\ EvalIdle /\ PipelineIdle /\ AuxIdle

SpecDate == InitResolver /\ [][NextDate]_vars

----------------------------------------------------------------------------
(* Claims about retrieval, checked under Spec *)

\* The evidence lists handed out so far: the evidences of the entries of the
\* knowledge store, and the list the last call returned.
OutputLists ==
    {knowledge_store[i].evidences : i \in 1..Len(knowledge_store)}
    \cup {returned}

\* The dates of the scenario of C2: 2024-12-01, 2025-06-01 and no date, for
\* a claim of 2025-01-01, as hits on pages 1, 2 and 4.
ScenarioHits ==
    /\ Len(hits) = 3
    /\ hits[1].page = 1
    /\ hits[2].page = 2
    /\ hits[3].page = 4

\* C1: every evidence item returned for a claim (an entry of the knowledge
\* store, the list retrieve_external_evidence returns) has a resolved
\* publish date strictly earlier than the claim's date.
C1_TemporalInvariant ==
    mode \in {"batch", "external"} =>
        \A list \in OutputLists : \A i \in 1..Len(list) :
            /\ ~IsNull(PublishDate(list[i].hit))
            /\ PublishDate(list[i].hit).day < claim.date.day

\* C1, the case the code does honour: the batch loop records dated hits
\* that predate the claim, and nothing else.
C1_BatchWitness ==
    /\ mode = "batch"
    /\ pc = "done"
    /\ Len(hits) = MaxHits
    /\ Len(knowledge_store) = 1
    /\ knowledge_store[1].evidences # <<>>
    /\ \A i \in 1..Len(knowledge_store[1].evidences) :
          PublishDate(knowledge_store[1].evidences[i].hit).day < claim.date.day

\* C2: for the scenario's three hits and a search that does not fail, the
\* batch loop records exactly one evidence item, the hit of 2024-12-01.
C2_ScenarioOneItem ==
    (/\ mode = "batch"
     /\ pc = "done"
     /\ claim.text
     /\ ~IsNull(claim.date)
     /\ ScenarioHits
     /\ log.kinds \cap {"search", "iter"} = {})
    => /\ Len(knowledge_store) = 1
       /\ knowledge_store[1].evidences = <<Item(1, "evidence", Null)>>

\* C2, the scenario with a claim date that states its zone: one item.
C2_AwareWitness ==
    /\ mode = "batch"
    /\ pc = "done"
    /\ claim.text
    /\ claim.date.aware
    /\ ScenarioHits
    /\ log.kinds = {}
    /\ Len(knowledge_store) = 1
    /\ knowledge_store[1].evidences = <<Item(1, "evidence", Null)>>

\* C3: every item of a returned evidence list is an evidence record of a hit
\* that passed is_relevant_result.
C3_AllPassedFilter ==
    \A list \in OutputLists : \A i \in 1..Len(list) :
        /\ list[i].kind = "evidence"
        /\ is_relevant_result(hits[list[i].hit])

\* C3, the case the code does honour: retrieve_external_evidence returns
\* only hits that passed the filter.
C3_ExternalWitness ==
    /\ mode = "external"
    /\ pc = "done"
    /\ returned # <<>>
    /\ \E k \in 1..Len(hits) : ~is_relevant_result(hits[k])
    /\ \A i \in 1..Len(returned) : is_relevant_result(hits[returned[i].hit])

\* C4: the evidence list of a claim never holds more than max_results items.
C4_AtMostMaxResults ==
    mode \in {"batch", "external"} =>
        /\ Len(results) <= MaxResults
        /\ \A list \in OutputLists : Len(list) <= MaxResults

\* C5 as stated: at most MAX_RETRIES search attempts are made for one claim,
\* and the k-th failed attempt is followed by a wait of BACKOFF_FACTOR ** k.
C5_AtMostMaxRetriesPerClaim ==
    /\ attempts <= MAX_RETRIES
    /\ \A k \in 1..Len(waits) : waits[k] = BACKOFF_FACTOR ^ k

\* C5 as amended: each call of retrieve_external_evidence, and the batch
\* loop for each claim, makes at most MAX_RETRIES (3) attempts and waits 2, 4,
\* 8 seconds after its first, second and third failure;
\* extract_evidence_from_claim repeats the call at most EmptyRetries (2)
\* times, so one claim sees at most 9 attempts there, at most 3 in the batch
\* loop, and the single unretried one of retrieve_external_evidence_lc.
C5_AtMostMaxRetriesPerCall ==
    /\ Tries <= 3
    /\ retries <= 3
    /\ Len(waits) = retries
    /\ mode \in {"batch", "external"} => log.raised = retries
    /\ waits = SubSeq(<<2, 4, 8>>, 1, Len(waits))
    /\ calls <= 3
    /\ attempts <= 9
    /\ mode = "batch" => attempts <= 3
    /\ mode = "lc" => attempts <= 1

\* C5, the case: the third call of retrieve_external_evidence for one claim
\* has used its three attempts, after waits of 2, 4 and 8 seconds.
C5_Witness ==
    /\ mode = "external"
    /\ calls = 3
    /\ attempts = 9
    /\ Tries = 3
    /\ waits = <<2, 4, 8>>

\* What a call of retrieve_external_evidence guarantees in every state.
ExhaustionReturnsAccumulated ==
    mode = "external" =>
        /\ pc # "raised"
        /\ pc \in {"e_search", "e_hits"} => retries < 3
        /\ (pc = "e_ret" /\ log.raised = Tries) => Tries = 3
        /\ (pc \in {"e_call", "done"} /\ calls >= 1 /\ log.raised = Tries) =>
              /\ Tries = 3
              /\ returned = results
              /\ Len(returned) = log.accepted
              /\ (log.kinds = {"search"} => returned = <<>>)

\* A measure of the work left to extract_evidence_from_claim: the calls it
\* may still make, then the attempts left to the running call, then the hits
\* left to the running attempt.
AttemptSpan == MaxHits + 3
CallSpan == 3 * AttemptSpan + 2
ExternalRank ==
    IF pc = "done" THEN 0
    ELSE IF pc = "e_call" THEN (3 - calls) * CallSpan
    ELSE (3 - calls) * CallSpan
         + (IF pc = "e_ret" THEN 1
            ELSE IF pc = "e_search" THEN (3 - retries) * AttemptSpan + 1
            ELSE (2 - retries) * AttemptSpan + 1 + (Len(hits) - pos + 2))

\* C6: when every attempt of a call of retrieve_external_evidence raises, no
\* exception leaves the call: the loop stops when the budget of MAX_RETRIES
\* is used, and the call returns the list accumulated so far, which is empty
\* when the failures left no accepted hit. The call terminates: every step
\* lowers a measure that is never negative.
C6_ExhaustionReturnsAccumulated ==
    /\ [](ExhaustionReturnsAccumulated /\ (mode = "external" => ExternalRank >= 0))
    /\ [][mode = "external" => ExternalRank' < ExternalRank]_vars

\* C6, the case: three attempts of one call raised, one of them after a hit
\* was accepted, and the call returned that hit.
C6_Witness ==
    /\ mode = "external"
    /\ pc = "done"
    /\ Tries = 3
    /\ log.raised = 3
    /\ "iter" \in log.kinds
    /\ returned # <<>>
    /\ returned = results

\* C10: every timestamp the retriever compares is timezone-aware, the claim
\* date included, so that publish_date < claim_date never raises.
C10_AllTimestampsAware ==
    /\ \A k \in 1..Len(hits) :
          ~IsNull(PublishDate(k)) => PublishDate(k).aware
    /\ (mode = "batch" /\ pc \in {"b_search", "b_hits", "b_append"}) =>
          claim.date.aware
    /\ "TypeError" \notin log.kinds

\* C10, the part the code does honour: a dated hit is compared with a claim
\* date that states its zone, and is accepted.
C10_AwareWitness ==
    /\ mode = "batch"
    /\ pc = "done"
    /\ claim.date.aware
    /\ Len(knowledge_store) = 1
    /\ knowledge_store[1].evidences # <<>>
    /\ \A k \in 1..Len(hits) : ~IsNull(PublishDate(k)) => PublishDate(k).aware

----------------------------------------------------------------------------
(* Claims about the resolver, checked under SpecDate *)

UrlParseable == page.url.match /\ page.url.day \in Days

\* A document whose only JSON-LD block states day d in form f.
ConflictingPage(url, f, d) ==
    FullPage(url, "ok",
             <<[form |-> f, has |-> TRUE, v |-> Latin(d, FALSE)]>>,
             NoMeta, HtmlNone)

\* C7: for a URL that embeds a parseable date, the resolver returns that
\* date (in UTC), whatever datePublished the document's JSON-LD states, and
\* never reads the document.
C7_UrlDateWins ==
    (dpc # "idle" /\ UrlParseable) =>
        /\ page.fetch = "unread"
        /\ page.scripts = <<>>
        /\ ~page.meta.read
        /\ ~page.htmldate.read
        /\ dpc = "done" =>
              /\ res.dt = [day |-> page.url.day, aware |-> TRUE]
              /\ res.by = 1
        /\ \A f \in {"dict", "graph"} : \A d \in Days \ {page.url.day} :
              find_published_date(ConflictingPage(page.url, f, d)).dt
                 = [day |-> page.url.day, aware |-> TRUE]

\* C7, the case: the run of a URL with a parseable date has returned it.
C7_Witness ==
    /\ dpc = "done"
    /\ UrlParseable
    /\ res.dt.day = page.url.day
    /\ \E d \in Days \ {page.url.day} :
          JsonLdStage(ConflictingPage(page.url, "dict", d).scripts).dt.day = d

\* C8: in find_published_date an exception in a stage does not end the
\* resolution. After a failed URL parse the document is requested; after an
\* exception in a JSON-LD script the meta tags are read; after an exception
\* in the meta stage, or when no document was obtained, htmldate is asked;
\* None is returned only when no stage produced a date.
C8_ExceptionsFallThrough ==
    dpc = "done" =>
        /\ UrlStage(page.url).st = "raise" => page.fetch # "unread"
        /\ (page.fetch = "ok" /\ JsonLdStage(page.scripts).st = "raise") =>
              page.scriptsEnd /\ page.meta.read
        /\ (page.meta.read /\ MetaStage(page.meta).st = "raise") =>
              page.htmldate.read
        /\ page.fetch \in {"raise", "none"} => page.htmldate.read
        /\ IsNull(res.dt) =>
              /\ UrlStage(page.url).st # "date"
              /\ page.fetch # "unread"
              /\ page.fetch = "ok" =>
                    /\ page.scriptsEnd
                    /\ JsonLdStage(page.scripts).st # "date"
                    /\ page.meta.read
                    /\ MetaStage(page.meta).st # "date"
              /\ page.htmldate.read
              /\ HtmlDateStage(page.htmldate).st # "date"
        /\ ~IsNull(res.dt) => res.by \in 1..4

\* C8, the case: stages 1, 2 and 3 each raised and htmldate gave the date.
C8_Witness ==
    /\ dpc = "done"
    /\ UrlStage(page.url).st = "raise"
    /\ page.fetch = "ok"
    /\ JsonLdStage(page.scripts).st = "raise"
    /\ MetaStage(page.meta).st = "raise"
    /\ res.by = 4
    /\ ~IsNull(res.dt)

\* The first JSON-LD script of the document states a parseable
\* datePublished, and no earlier stage gave a date.
FirstScriptDated ==
    /\ dpc = "done"
    /\ UrlStage(page.url).st # "date"
    /\ page.fetch = "ok"
    /\ Len(page.scripts) >= 1
    /\ page.scripts[1].form \in {"dict", "graph", "list"}
    /\ page.scripts[1].has
    /\ page.scripts[1].v.day \in Days

\* C9: a parseable datePublished is the result of the JSON-LD stage in each
\* of the three forms of a block: object, @graph list, list of objects.
C9_ThreeForms ==
    FirstScriptDated =>
        /\ res.by = 2
        /\ res.dt = [day |-> page.scripts[1].v.day, aware |-> TRUE]

\* C9, the forms the code does read: an @graph item's datePublished is
\* the result.
C9_GraphWitness ==
    /\ FirstScriptDated
    /\ page.scripts[1].form = "graph"
    /\ res.by = 2
    /\ res.dt.day = page.scripts[1].v.day

----------------------------------------------------------------------------
(* Evaluation: the assignment scorer (AVeriTeCEvaluator) *)

(* Bounds of the model *)
MaxPred == 1
MaxRef == 2
MaxClaims == 2
MaxFacts == 2

(* Program constants *)
max_questions == 10
EV2R_MAX_RETRIES == 10

\* pairwise_meteor gives a score between 0.0 and 1.0; scores are counted in
\* tenths, so 1.0 is ScoreUnit and the reporting level 0.3 is 3.
ScoreUnit == 10
averitec_reporting_levels == <<3>>
ev2r_reporting_levels == <<5>>

\* The strings of QA pairs; "" is the empty entry the scorers skip.
Texts == {"a", "b"}
Entries == Texts \cup {""}
\* The scores a pair of strings can get: none and full.
Scores == {0, ScoreUnit}
Labels == {"Supported", "Refuted"}

\* self.pairwise_metric: a pure function of the two strings.
Metrics == [Texts \X Texts -> Scores]

Smaller(a, b) == IF a < b THEN a ELSE b

ListsUpTo(S, n) == UNION {[1..k -> S] : k \in 0..n}

\* Lists with empty entries.
WithEmpty == {<<"">>, <<"", "b">>, <<"a", "">>}

\* The predicted QA lists: the short ones, a list just over the cap of
\* max_questions entries, the entry beyond the cap unlike the others, and a
\* list of max_questions entries that ends with an empty one.
PredLists ==
    ListsUpTo(Texts, MaxPred) \cup WithEmpty
        \cup {[k \in 1..(max_questions + 1) |->
                 IF k <= max_questions THEN "a" ELSE "b"]}
        \cup {[k \in 1..max_questions |->
                 IF k < max_questions THEN "a" ELSE ""]}

\* The reference QA lists.
RefLists == ListsUpTo(Texts, MaxRef) \cup WithEmpty

\* for qa_pair in evidence: if qa_pair != "": strings.append(...)
Strings(qa_pairs) == SelectSeq(qa_pairs, LAMBDA e : e # "")

RECURSIVE Questions(_, _)
\* evaluate_questions_only: the question of each non-empty entry, once.
Questions(qa_pairs, acc) ==
    IF qa_pairs = <<>> THEN acc
    ELSE LET e == Head(qa_pairs)
         IN Questions(Tail(qa_pairs),
                IF e # "" /\ ~(\E k \in 1..Len(acc) : acc[k] = e)
                THEN Append(acc, e) ELSE acc)

\* src_strings[: self.max_questions]
Cap_all(strings) == strings

Cap(strings) == SubSeq(strings, 1, Smaller(Len(strings), max_questions))

\* The m x n matrix of metric(src, tgt).
compute_all_pairwise_scores(src_data, tgt_data, metric) ==
    [c \in (1..Len(src_data)) \X (1..Len(tgt_data)) |->
        metric[<<src_data[c[1]], tgt_data[c[2]]>>]]

RECURSIVE PairSum(_, _)
\* pairwise_scores[assignment[0], assignment[1]].sum()
PairSum(M, pairs) ==
    IF pairs = {} THEN 0
    ELSE LET c == CHOOSE c \in pairs : TRUE
         IN M[c] + PairSum(M, pairs \ {c})

RECURSIVE AssignFrom(_, _, _, _, _)
\* The lines k..small of the smaller side of the matrix each get a partner
\* of their own among free, so that the sum of the cells is largest.
AssignFrom(M, byRows, k, small, free) ==
    IF k > small THEN [sum |-> 0, pairs |-> {}]
    ELSE LET cands ==
                 { LET cell == IF byRows THEN <<k, p>> ELSE <<p, k>>
                       rest == AssignFrom(M, byRows, k + 1, small, free \ {p})
                   IN [sum |-> M[cell] + rest.sum,
                       pairs |-> {cell} \cup rest.pairs]
                   : p \in free }
         IN CHOOSE a \in cands : \A b \in cands : b.sum <= a.sum

RECURSIVE GreedyFrom(_, _, _, _)
\* Row by row, each row takes the best column still free.
GreedyFrom(M, i, m, free) ==
    IF i > m \/ free = {} THEN {}
    ELSE LET j == CHOOSE j \in free : \A q \in free : M[<<i, q>>] <= M[<<i, j>>]
         IN {<<i, j>>} \cup GreedyFrom(M, i + 1, m, free \ {j})

\* A greedy matching instead of the optimal one.
linear_sum_assignment_greedy(M, m, n) == GreedyFrom(M, 1, m, 1..n)

\* scipy.optimize.linear_sum_assignment(M, maximize=True): min(m, n) cells,
\* no two in one row or column, of the largest sum.
linear_sum_assignment(M, m, n) ==
    IF m <= n THEN AssignFrom(M, TRUE, 1, m, 1..n).pairs
    ELSE AssignFrom(M, FALSE, 1, n, 1..m).pairs

\* The sum divided by the number of matched pairs.
Reweight_matched(total, src_strings, tgt_strings) ==
    [num |-> total, den |-> Smaller(Len(src_strings), Len(tgt_strings))]

\* assignment_utility *= 1 / float(len(tgt_strings))
Reweight(total, src_strings, tgt_strings) ==
    [num |-> total, den |-> Len(tgt_strings)]

\* 1 / float(0) raises.
ZeroDivision(tgt_strings) == Len(tgt_strings) = 0

\* The matrix, its assignment, the sum of the assigned cells, reweighted.
AssignmentUtility(src_strings, tgt_strings) ==
    LET pairwise_scores ==
            compute_all_pairwise_scores(src_strings, tgt_strings, meteor)
        assignment ==
            linear_sum_assignment(pairwise_scores,
                                  Len(src_strings), Len(tgt_strings))
    IN Reweight(PairSum(pairwise_scores, assignment), src_strings, tgt_strings)

\* What each scorer compares for a claim.
SrcStrings(r) ==
    IF evaluator = "questions" THEN Cap(Questions(r.src, <<>>))
    ELSE Cap(Strings(r.src))

TgtStrings(r) ==
    IF evaluator = "questions" THEN Questions(r.tgt, <<>>)
    ELSE Strings(r.tgt)

compute_pairwise_evidence_score(r) ==
    AssignmentUtility(SrcStrings(r), TgtStrings(r))

\* score > level, for a utility num / den and a level, both in tenths.
Exceeds(score, level) == score.num > level * score.den

\* this_example_scores: 0.0 per level, set to 1.0 where the score exceeds
\* the level and the labels agree.
this_example_scores(score, levels, predicted_label, normalized_label) ==
    [j \in 1..Len(levels) |->
        IF Exceeds(score, levels[j])
        THEN (IF predicted_label = normalized_label THEN 1 ELSE 0)
        ELSE 0]

\* The labels are read only where a level is exceeded.
LabelsRead(score, levels) == \E j \in 1..Len(levels) : Exceeds(score, levels[j])

RECURSIVE ColumnSum(_, _)
ColumnSum(list, j) ==
    IF list = <<>> THEN 0 ELSE Head(list)[j] + ColumnSum(Tail(list), j)

\* np.mean(np.array(scores), axis=0): per level, the sum over the claims and
\* their number.
MeanOfIndicators(list, levels) ==
    [j \in 1..Len(levels) |-> [num |-> ColumnSum(list, j), den |-> Len(list)]]

RECURSIVE SumOfUtils(_)
SumOfUtils(list) ==
    IF list = <<>> THEN [num |-> 0, den |-> 1]
    ELSE LET u == Head(list)
             t == SumOfUtils(Tail(list))
         IN [num |-> u.num * t.den + t.num * u.den, den |-> u.den * t.den]

\* np.mean(all_utils)
MeanOfUtils(list) ==
    LET t == SumOfUtils(list) IN <<[num |-> t.num, den |-> t.den * Len(list)]>>

\* evaluate_averitec_score, and evaluate_questions_only; the body of
\* evaluate_questions_and_answers is that of compute_pairwise_evidence_score.
Scorers == {"averitec", "questions"}

\* The rows of the frames are read one by one. evaluate_questions_only is
\* followed through its first row: its iterations share nothing but the
\* list all_utils.
RowLimit == IF evaluator = "questions" THEN 1 ELSE MaxClaims

NotReturned == [st |-> "none", means |-> <<>>]

\* for i in range(len(srcs)): the QA lists of row i.
EvalRow ==
    /\ evaluator \in Scorers
    /\ epc = "loop"
    /\ idx < RowLimit
    /\ nclaims' = idx + 1
    /\ \E src \in PredLists, tgt \in RefLists :
           row' = [src |-> src, tgt |-> tgt]
    /\ epc' = "row"
    /\ util' = NoUtil
    /\ util0' = NoUtil
    /\ last' = NoLast
    /\ UNCHANGED <<evaluator, meteor, idbase, idx, scores, responses,
                   attempt, outcome, escaped>>
    /\ UNCHANGED <<dvars, rvars, pvars, avars>>

\* The utility of the row; with no reference string the division raises and
\* the exception leaves the scorer.
ComputeUtility ==
    /\ evaluator \in Scorers
    /\ epc = "row"
    /\ IF ZeroDivision(TgtStrings(row))
       THEN /\ epc' = "raised"
            /\ escaped' = escaped \cup {"ZeroDivisionError"}
            /\ UNCHANGED <<util, util0>>
       ELSE /\ epc' = "scored"
            /\ util' = compute_pairwise_evidence_score(row)
            /\ util0' = (IF util0 = NoUtil THEN util' ELSE util0)
            /\ UNCHANGED escaped
    /\ UNCHANGED <<evaluator, meteor, nclaims, idbase, row, idx, scores,
                   responses, attempt, last, outcome>>
    /\ UNCHANGED <<dvars, rvars, pvars, avars>>

Swap(list, k) ==
    [p \in 1..Len(list) |->
        IF p = k THEN list[k + 1] ELSE IF p = k + 1 THEN list[k] ELSE list[p]]

\* The same claim with two neighbours of its predicted or of its reference
\* list exchanged, scored again.
Reorder ==
    /\ evaluator \in Scorers
    /\ epc = "scored"
    /\ \/ \E k \in 1..(Len(row.src) - 1) :
              /\ row.src[k] # row.src[k + 1]
              /\ row' = [row EXCEPT !.src = Swap(row.src, k)]
       \/ \E k \in 1..(Len(row.tgt) - 1) :
              /\ row.tgt[k] # row.tgt[k + 1]
              /\ row' = [row EXCEPT !.tgt = Swap(row.tgt, k)]
    /\ epc' = "row"
    /\ util' = NoUtil
    /\ last' = [kind |-> "reordered"]
    /\ UNCHANGED <<evaluator, meteor, nclaims, idbase, idx, util0, scores,
                   responses, attempt, outcome, escaped>>
    /\ UNCHANGED <<dvars, rvars, pvars, avars>>

\* The same claim with one more predicted QA pair after max_questions or
\* more of them, scored again.
Extend ==
    /\ evaluator \in Scorers
    /\ epc = "scored"
    /\ last = NoLast
    /\ Len(row.src) >= max_questions
    /\ \E x \in Texts :
           LET r == [row EXCEPT !.src = Append(row.src, x)]
           IN /\ row' = r
              /\ util' = compute_pairwise_evidence_score(r)
    /\ epc' = "extended"
    /\ last' = [kind |-> "extended"]
    /\ UNCHANGED <<evaluator, meteor, nclaims, idbase, idx, util0, scores,
                   responses, attempt, outcome, escaped>>
    /\ UNCHANGED <<dvars, rvars, pvars, avars>>

\* The rest of the iteration: evaluate_averitec_score sets the indicators of
\* the claim, the other two append the utility.
RecordRow ==
    /\ evaluator \in Scorers
    /\ epc \in {"scored", "extended"}
    /\ IF evaluator = "averitec"
       THEN LET read == LabelsRead(util, averitec_reporting_levels)
            IN \E pl \in (IF read THEN Labels ELSE {"unread"}),
                  nl \in (IF read THEN Labels ELSE {"unread"}) :
                   LET ind == this_example_scores(util,
                                  averitec_reporting_levels, pl, nl)
                   IN /\ scores' = Append(scores, ind)
                      /\ last' = [kind |-> "indicator", score |-> util,
                                  predicted_label |-> pl,
                                  normalized_label |-> nl, ind |-> ind]
       ELSE /\ scores' = Append(scores, util)
            /\ last' = [kind |-> "utility", score |-> util]
    /\ idx' = idx + 1
    /\ epc' = "loop"
    /\ row' = NoRow
    /\ util' = NoUtil
    /\ util0' = NoUtil
    /\ UNCHANGED <<evaluator, meteor, nclaims, idbase, responses, attempt,
                   outcome, escaped>>
    /\ UNCHANGED <<dvars, rvars, pvars, avars>>

\* The frames have no further row: return np.mean(...), scores
FinishScorer ==
    /\ evaluator \in Scorers
    /\ epc = "loop"
    /\ idx = nclaims
    /\ outcome' = [st |-> "returned",
                   means |-> IF evaluator = "averitec"
                             THEN MeanOfIndicators(scores,
                                      averitec_reporting_levels)
                             ELSE MeanOfUtils(scores)]
    /\ epc' = "done"
    /\ UNCHANGED <<evaluator, meteor, nclaims, idbase, row, idx, util, util0,
                   scores, responses, attempt, last, escaped>>
    /\ UNCHANGED <<dvars, rvars, pvars, avars>>

\* compute_averitec_scores runs the three scorers over the same frames.
InitScorer ==
    /\ evaluator \in Scorers
    /\ meteor \in Metrics
    /\ nclaims = 0
    /\ idbase = 0
    /\ row = NoRow
    /\ idx = 0
    /\ epc = "loop"
    /\ util = NoUtil
    /\ util0 = NoUtil
    /\ scores = <<>>
    /\ responses = <<>>
    /\ attempt = 0
    /\ last = NoLast
    /\ outcome = NotReturned
    /\ escaped = {}

InitEval ==
    ResolverIdle /\ RetrievalIdle /\ InitScorer /\ PipelineIdle /\ AuxIdle

NextEval ==
    \/ EvalRow
    \/ ComputeUtility
    \/ Reorder
    \/ Extend
    \/ RecordRow
    \/ FinishScorer

SpecEval == InitEval /\ [][NextEval]_vars

----------------------------------------------------------------------------
(* Claims about the assignment scorer, checked under SpecEval *)

\* The one-to-one assignments of prediction rows to reference columns: each
\* column takes a row or none (0), and no row is taken twice.
Matchings(m, n) ==
    {f \in [1..n -> 0..m] :
        \A j, k \in 1..n : (j # k /\ f[j] # 0) => f[j] # f[k]}

RECURSIVE MatchingSum(_, _, _)
MatchingSum(M, f, j) ==
    IF j = 0 THEN 0
    ELSE (IF f[j] = 0 THEN 0 ELSE M[<<f[j], j>>]) + MatchingSum(M, f, j - 1)

BestMatchingSum(M, m, n) ==
    LET sums == {MatchingSum(M, f, n) : f \in Matchings(m, n)}
    IN CHOOSE v \in sums : \A w \in sums : w <= v

\* A claim has just been scored by one of the assignment scorers.
Scored == evaluator \in Scorers /\ epc = "scored"

\* C11: the utility of a claim is the largest sum of matrix entries over all
\* one-to-one assignments of prediction rows to reference columns, divided
\* by n, the number of reference strings.
C11_UtilityIsBestOverN ==
    Scored =>
        LET src == SrcStrings(row)
            tgt == TgtStrings(row)
            M == compute_all_pairwise_scores(src, tgt, meteor)
        IN /\ util.den > 0
           /\ util.num * Len(tgt)
                  = BestMatchingSum(M, Len(src), Len(tgt)) * util.den

\* C11, its case: fewer predictions than references, a match found, and the
\* divisor is the number of references.
C11_Witness ==
    /\ Scored
    /\ Len(SrcStrings(row)) = 1
    /\ Len(TgtStrings(row)) = 2
    /\ util.num = ScoreUnit
    /\ util.den = 2

\* Two utilities are the same number.
SameUtility(u, v) == u.num * v.den = v.num * u.den

\* C12 as stated: the utility of a claim is the same in whatever order its
\* predicted and its reference QA pairs are given, for lists of every length.
C12_OrderInvariant ==
    Scored => SameUtility(util, util0)

\* The predicted strings of the claim all fit under the cap.
UnderCap ==
    IF evaluator = "questions"
    THEN Len(Questions(row.src, <<>>)) <= max_questions
    ELSE Len(Strings(row.src)) <= max_questions

\* C12 as amended: the utility is the same in whatever order the reference
\* QA pairs are given, and in whatever order the predicted ones are given
\* when no more than max_questions of them count.
C12_OrderInvariantUnderCap ==
    (Scored /\ UnderCap) => SameUtility(util, util0)

\* C12, its case: a claim scored again after an exchange, with two different
\* reference strings and a match.
C12_Witness ==
    /\ Scored
    /\ UnderCap
    /\ last = [kind |-> "reordered"]
    /\ TgtStrings(row) = <<"b", "a">>
    /\ util.num > 0
    /\ SameUtility(util, util0)

\* C13: the division by the number of reference strings is never executed
\* with none: the callers keep a claim without references from the scorer.
C13_NeverDividesByZero ==
    "ZeroDivisionError" \notin escaped

\* C13, the case: a claim with reference strings is scored.
C13_Witness ==
    /\ Scored
    /\ Len(TgtStrings(row)) >= 1
    /\ escaped = {}

----------------------------------------------------------------------------
(* Evaluation: the judged scorer (EV2REvaluator) and the model calls *)

\* What self.client.messages.create and the text of its response can do:
\*   "json"        a response whose text holds a JSON object
\*   "no_json"     a response with no braces: _extract_json_from_response
\*                 raises ValueError
\*   "bad_json"    a response whose braces do not parse: json.loads raises
\*                 JSONDecodeError
\*   "api_error"   the client raises an exception that is not a ValueError
\*   "value_error" the client raises ValueError: no response was assigned
ClientOutcomes == {"json", "no_json", "bad_json", "api_error", "value_error"}

NoException == "none"

\* The try block and the two handlers shared by query_claude_sonnet_api,
\* generate_qa_pairs and generate_evidence_qa_pairs. The first handler reads
\* response.content[0].text in the else branch of its conditional expression
\* whenever '"response" in locals()' is false.
ExtractOrError(c) ==
    IF c = "json"
    THEN [exc |-> NoException, value |-> [kind |-> "json"]]
    ELSE IF c \in {"no_json", "bad_json"}
    THEN [exc |-> NoException,
          value |-> [kind |-> "error", raw_response |-> TRUE]]
    ELSE IF c = "value_error"
    THEN [exc |-> "UnboundLocalError", value |-> [kind |-> "nothing"]]
    ELSE [exc |-> NoException,
          value |-> [kind |-> "error", raw_response |-> FALSE]]

query_claude_sonnet_api(c) == ExtractOrError(c)

generate_qa_pairs(c) == ExtractOrError(c)

generate_evidence_qa_pairs(c) == ExtractOrError(c)

\* A count pair of the judge's JSON object: "support ..." and "facts count
\* ..." of one side, or the keys missing.
KeysMissing == [present |-> FALSE, support |-> 0, facts |-> 0]

CountPairs(n) ==
    {[present |-> TRUE, support |-> s, facts |-> f] :
        <<s, f>> \in {p \in (0..n) \X (0..n) : p[1] <= p[2]}}

\* The objects a judge can answer with; an error value has none of the keys.
Bodies ==
    {[kind |-> "json", pred |-> p, ref |-> r] :
        p \in {KeysMissing,
               [present |-> TRUE, support |-> 0, facts |-> 0],
               [present |-> TRUE, support |-> 1, facts |-> 1]},
        r \in {KeysMissing} \cup CountPairs(MaxFacts)}

None == [kind |-> "None"]

\* process_output: the response with the id of the reference sample; row is
\* the place of the sample in the frames, kept to tell whose response it is.
process_output(id, i, response) == [id |-> id, row |-> i, response |-> response]

\* prepare_dataset: id = ClaimID or i
SampleId(i) == idbase + i

\* calculate_atomic_score_prec_recall_openai_response, and
\* calculate_question_score_prec_recall_claude_response with the other key
\* names: precision, then recall, int / int; every exception gives None.
calculate_score_uncaught(response_llm) ==
    LET response == response_llm.response
    IN IF response.kind # "json" \/ ~response.pred.present
       THEN [exc |-> "KeyError", value |-> None]
       ELSE IF response.pred.facts = 0
       THEN [exc |-> "ZeroDivisionError", value |-> None]
       ELSE IF ~response.ref.present
       THEN [exc |-> "KeyError", value |-> None]
       ELSE IF response.ref.facts = 0
       THEN [exc |-> "ZeroDivisionError", value |-> None]
       ELSE [exc |-> NoException,
             value |-> [kind |-> "score", id |-> response_llm.id,
                        row |-> response_llm.row,
                        recall |-> [num |-> response.ref.support * ScoreUnit,
                                    den |-> response.ref.facts]]]

calculate_atomic_score_prec_recall_openai_response(response_llm) ==
    LET response == response_llm.response
    IN IF response.kind # "json" \/ ~response.pred.present
       THEN [exc |-> NoException, value |-> None]
       ELSE IF response.pred.facts = 0
       THEN [exc |-> NoException, value |-> None]
       ELSE IF ~response.ref.present
       THEN [exc |-> NoException, value |-> None]
       ELSE IF response.ref.facts = 0
       THEN [exc |-> NoException, value |-> None]
       ELSE [exc |-> NoException,
             value |-> [kind |-> "score", id |-> response_llm.id,
                        row |-> response_llm.row,
                        recall |-> [num |-> response.ref.support * ScoreUnit,
                                    den |-> response.ref.facts]]]

ZeroRecall == [num |-> 0, den |-> 1]

\* extract_recall_score: one entry per score of the list
extract_recall_score(evi_scores) ==
    [k \in 1..Len(evi_scores) |->
        IF evi_scores[k] # None THEN evi_scores[k].recall ELSE ZeroRecall]

\* extract_ev2r_score, the inner loop for row i: the first score whose id is
\* i, unless a score with a greater id comes first; None when there is none.
RECURSIVE ScanScores(_, _)
ScanScores(qa_evi_scores, i) ==
    IF qa_evi_scores = <<>> THEN None
    ELSE LET ev2r_score == Head(qa_evi_scores)
         IN IF ev2r_score # None /\ ev2r_score.id = i THEN ev2r_score
            ELSE IF ev2r_score # None /\ ev2r_score.id > i THEN None
            ELSE ScanScores(Tail(qa_evi_scores), i)

\* The score made for row i, if the judge gave one.
RECURSIVE OwnScore(_, _)
OwnScore(qa_evi_scores, i) ==
    IF qa_evi_scores = <<>> THEN None
    ELSE IF Head(qa_evi_scores) # None /\ Head(qa_evi_scores).row = i
    THEN Head(qa_evi_scores)
    ELSE OwnScore(Tail(qa_evi_scores), i)

RecallOf(score) == IF score = None THEN ZeroRecall ELSE score.recall

Judges == {"ev2r_q", "ev2r_qa"}

Generators == {"generate_qa_pairs", "generate_evidence_qa_pairs"}

Extracting(ind, recall) ==
    [st |-> "extracting", scores |-> ind, recall |-> recall]

\* prompt_api_model, loop head: the next pair of samples; attempt = 0
PromptSample ==
    /\ evaluator \in Judges
    /\ epc = "prompt"
    /\ idx < MaxClaims
    /\ nclaims' = idx + 1
    /\ attempt' = 0
    /\ epc' = "query"
    /\ UNCHANGED <<evaluator, meteor, idbase, row, idx, util, util0, scores,
                   responses, last, outcome, escaped>>
    /\ UNCHANGED <<dvars, rvars, pvars, avars>>

\* One turn of 'while attempt < self.MAX_RETRIES': the call and
\* process_output; an exception adds one to attempt, a response is appended
\* and ends the loop.
QueryAttempt ==
    /\ evaluator \in Judges
    /\ epc = "query"
    /\ attempt < EV2R_MAX_RETRIES
    /\ \E c \in ClientOutcomes :
           LET r == query_claude_sonnet_api(c)
           IN IF r.exc # NoException
              THEN /\ attempt' = attempt + 1
                   /\ escaped' = escaped \cup {r.exc}
                   /\ UNCHANGED <<idx, epc, responses>>
              ELSE /\ responses' = Append(responses,
                           process_output(SampleId(idx), idx, r.value))
                   /\ idx' = idx + 1
                   /\ epc' = "prompt"
                   /\ attempt' = 0
                   /\ UNCHANGED escaped
    /\ UNCHANGED <<evaluator, meteor, nclaims, idbase, row, util, util0,
                   scores, last, outcome>>
    /\ UNCHANGED <<dvars, rvars, pvars, avars>>

\* The while loop ends with attempt = MAX_RETRIES: nothing is appended for
\* the sample.
GiveUp ==
    /\ evaluator \in Judges
    /\ epc = "query"
    /\ attempt = EV2R_MAX_RETRIES
    /\ idx' = idx + 1
    /\ epc' = "prompt"
    /\ attempt' = 0
    /\ UNCHANGED <<evaluator, meteor, nclaims, idbase, row, util, util0,
                   scores, responses, last, outcome, escaped>>
    /\ UNCHANGED <<dvars, rvars, pvars, avars>>

\* return responses; compute_ev2r_score hands them to calculate_*_scores
FinishPrompt ==
    /\ evaluator \in Judges
    /\ epc = "prompt"
    /\ idx = nclaims
    /\ idx >= 1
    /\ epc' = "calc"
    /\ idx' = 0
    /\ UNCHANGED <<evaluator, meteor, nclaims, idbase, row, util, util0,
                   scores, responses, attempt, last, outcome, escaped>>
    /\ UNCHANGED <<dvars, rvars, pvars, avars>>

\* calculate_question_scores / calculate_prediction_scores, one iteration:
\* the judge's object is read here for the first time.
CalculateScore ==
    /\ evaluator \in Judges
    /\ epc = "calc"
    /\ idx < Len(responses)
    /\ LET resp == responses[idx + 1]
       IN \E body \in (IF resp.response.kind = "json"
                       THEN Bodies ELSE {resp.response}) :
              LET response_llm == [resp EXCEPT !.response = body]
                  r == calculate_atomic_score_prec_recall_openai_response(
                           response_llm)
              IN IF r.exc # NoException
                 THEN /\ epc' = "raised"
                      /\ escaped' = escaped \cup {r.exc}
                      /\ last' = [kind |-> "calc", before |-> scores,
                                  response_llm |-> response_llm,
                                  raised |-> TRUE]
                      /\ UNCHANGED <<idx, scores>>
                 ELSE /\ scores' = Append(scores, r.value)
                      /\ idx' = idx + 1
                      /\ last' = [kind |-> "calc", before |-> scores,
                                  response_llm |-> response_llm,
                                  raised |-> FALSE]
                      /\ UNCHANGED <<epc, escaped>>
    /\ UNCHANGED <<evaluator, meteor, nclaims, idbase, row, util, util0,
                   responses, attempt, outcome>>
    /\ UNCHANGED <<dvars, rvars, pvars, avars>>

\* return predictions_w_scores
FinishCalc ==
    /\ evaluator \in Judges
    /\ epc = "calc"
    /\ idx = Len(responses)
    /\ epc' = "extract"
    /\ idx' = 0
    /\ last' = NoLast
    /\ outcome' = Extracting(<<>>, <<>>)
    /\ UNCHANGED <<evaluator, meteor, nclaims, idbase, row, util, util0,
                   scores, responses, attempt, escaped>>
    /\ UNCHANGED <<dvars, rvars, pvars, avars>>

\* extract_recall_score(q_evi_scores)
ExtractRecall ==
    /\ evaluator = "ev2r_q"
    /\ epc = "extract"
    /\ outcome' = [st |-> "returned", scores |-> <<>>,
                   recall |-> extract_recall_score(scores)]
    /\ epc' = "done"
    /\ UNCHANGED <<evaluator, meteor, nclaims, idbase, row, idx, util, util0,
                   scores, responses, attempt, last, escaped>>
    /\ UNCHANGED <<dvars, rvars, pvars, avars>>

\* extract_ev2r_score, one iteration of 'for i in range(len(srcs))'. The
\* labels of row i are read when a recall is above a level.
ExtractRow ==
    /\ evaluator = "ev2r_qa"
    /\ epc = "extract"
    /\ idx < nclaims
    /\ LET found == ScanScores(scores, idx)
           own == OwnScore(scores, idx)
           read == \/ LabelsRead(RecallOf(found), ev2r_reporting_levels)
                   \/ LabelsRead(RecallOf(own), ev2r_reporting_levels)
       IN \E pl \in (IF read THEN Labels ELSE {"unread"}),
             nl \in (IF read THEN Labels ELSE {"unread"}) :
              LET ind == this_example_scores(RecallOf(found),
                             ev2r_reporting_levels, pl, nl)
              IN /\ outcome' = Extracting(Append(outcome.scores, ind),
                                   Append(outcome.recall, RecallOf(found)))
                 /\ last' = [kind |-> "ev2r", i |-> idx, own |-> RecallOf(own),
                             predicted_label |-> pl, normalized_label |-> nl,
                             ind |-> ind]
    /\ idx' = idx + 1
    /\ UNCHANGED <<evaluator, meteor, nclaims, idbase, row, epc, util, util0,
                   scores, responses, attempt, escaped>>
    /\ UNCHANGED <<dvars, rvars, pvars, avars>>

\* return np.mean(np.array(scores), axis=0), scores, ..., ev2r_qa_recall
FinishExtract ==
    /\ evaluator = "ev2r_qa"
    /\ epc = "extract"
    /\ idx = nclaims
    /\ outcome' = [outcome EXCEPT !.st = "returned"]
    /\ epc' = "done"
    /\ UNCHANGED <<evaluator, meteor, nclaims, idbase, row, idx, util, util0,
                   scores, responses, attempt, last, escaped>>
    /\ UNCHANGED <<dvars, rvars, pvars, avars>>

\* One call of generate_qa_pairs or of generate_evidence_qa_pairs.
GenerateCall ==
    /\ evaluator \in Generators
    /\ epc = "call"
    /\ \E c \in ClientOutcomes :
           LET r == IF evaluator = "generate_qa_pairs"
                    THEN generate_qa_pairs(c)
                    ELSE generate_evidence_qa_pairs(c)
           IN /\ last' = [kind |-> "call", client |-> c, value |-> r.value]
              /\ escaped' = (IF r.exc # NoException
                             THEN escaped \cup {r.exc} ELSE escaped)
              /\ epc' = (IF r.exc # NoException THEN "raised" ELSE "returned")
    /\ UNCHANGED <<evaluator, meteor, nclaims, idbase, row, idx, util, util0,
                   scores, responses, attempt, outcome>>
    /\ UNCHANGED <<dvars, rvars, pvars, avars>>

\* What a parsed object of the generator can be: with the key "qa_pairs",
\* without it, or the empty object.
Shapes == {"qa_pairs", "other_keys", "empty"}

\* The scripts' use of the value: 'if qa_pairs:' is true of every non-empty
\* dict, the error value included, and qa_pairs["qa_pairs"] is then read.
store_qa_pairs(value, shape) ==
    IF value.kind = "error" THEN [exc |-> "KeyError", stored |-> "nothing"]
    ELSE IF shape = "empty" THEN [exc |-> NoException, stored |-> "None"]
    ELSE IF shape = "qa_pairs" THEN [exc |-> NoException, stored |-> "qa_pairs"]
    ELSE [exc |-> "KeyError", stored |-> "nothing"]

\* The rest of the iteration of the script's loop: the value is put in the
\* frame's column and the frame is saved; an exception leaves main.
\* responses is the column in memory, scores the column as last saved.
StoreQAPairs ==
    /\ evaluator \in Generators
    /\ epc = "returned"
    /\ \E shape \in (IF last.value.kind = "json" THEN Shapes ELSE {"none"}) :
           LET r == store_qa_pairs(last.value, shape)
           IN IF r.exc # NoException
              THEN /\ epc' = "raised"
                   /\ escaped' = escaped \cup {r.exc}
                   /\ last' = [kind |-> "stored", client |-> last.client,
                               value |-> last.value, stored |-> r.stored]
                   /\ UNCHANGED <<responses, scores>>
              ELSE /\ epc' = "done"
                   /\ responses' = Append(responses, r.stored)
                   /\ scores' = responses'
                   /\ last' = [kind |-> "stored", client |-> last.client,
                               value |-> last.value, stored |-> r.stored]
                   /\ UNCHANGED escaped
    /\ UNCHANGED <<evaluator, meteor, nclaims, idbase, row, idx, util, util0,
                   attempt, outcome>>
    /\ UNCHANGED <<dvars, rvars, pvars, avars>>

\* The calling script's loop over the claims: the next call, after one that
\* returned.
CallAgain ==
    /\ evaluator \in Generators
    /\ epc = "done"
    /\ nclaims < MaxClaims
    /\ nclaims' = nclaims + 1
    /\ epc' = "call"
    /\ last' = NoLast
    /\ UNCHANGED <<evaluator, meteor, idbase, row, idx, util, util0, scores,
                   responses, attempt, outcome, escaped>>
    /\ UNCHANGED <<dvars, rvars, pvars, avars>>

\* What the model answers to a label prompt: a JSON object whose
\* "predicted_label" is a label of the prompt, another word or missing, a
\* text that is not JSON, a JSON value that is not an object; or the call
\* fails.
LabelAnswers ==
    {[kind |-> "object", label |-> l] : l \in {"SUPPORTED", "MAYBE", "missing"}}
        \cup {[kind |-> "no_json"], [kind |-> "not_object"],
              [kind |-> "api_error"], [kind |-> "value_error"]}

\* ClaudeSonnet4Client.generate_response: the text of the answer; an
\* exception of the call gives the error dict, and the handler of
\* ValueError reads response before it is bound.
generate_response(a) ==
    IF a.kind = "api_error"
      THEN [exc |-> NoException, value |-> [kind |-> "dict"]]
    ELSE IF a.kind = "value_error"
      THEN [exc |-> "UnboundLocalError", value |-> [kind |-> "nothing"]]
    ELSE [exc |-> NoException, value |-> [kind |-> "str", text |-> a]]

\* extract_label: json.loads(response_text), then data.get("predicted_label");
\* only JSONDecodeError is caught.
extract_label(response_text) ==
    IF response_text.kind # "str"
      THEN [exc |-> "TypeError", label |-> "None"]
    ELSE IF response_text.text.kind = "no_json"
      THEN [exc |-> NoException, label |-> "None"]
    ELSE IF response_text.text.kind = "not_object"
      THEN [exc |-> "AttributeError", label |-> "None"]
    ELSE IF response_text.text.label = "missing"
      THEN [exc |-> NoException, label |-> "None"]
    ELSE [exc |-> NoException, label |-> response_text.text.label]

labels_map ==
    [l \in {"SUPPORTED", "REFUTED", "NOT_ENOUGH_EVIDENCE",
            "CONFLICTING_EVIDENCE"} |->
        IF l = "SUPPORTED" THEN "supported"
        ELSE IF l = "REFUTED" THEN "refuted"
        ELSE IF l = "NOT_ENOUGH_EVIDENCE" THEN "Not Enough Evidence"
        ELSE "Conflicting Evidence/Cherrypicking"]

\* normalize_label: labels_map.get(label, None)
normalize_label(label) ==
    IF label \in DOMAIN labels_map THEN labels_map[label] ELSE "None"

\* predict_labels.main, one iteration of the loop over the rows of df.
PredictLabel ==
    /\ evaluator = "predict_labels"
    /\ epc = "predict"
    /\ idx < nclaims
    /\ \E a \in LabelAnswers :
           LET llm_response == generate_response(a)
               label == extract_label(llm_response.value)
               exc == IF llm_response.exc # NoException THEN llm_response.exc
                      ELSE label.exc
           IN /\ last' = [kind |-> "predicted", i |-> idx, answer |-> a]
              /\ IF exc # NoException
                   THEN /\ epc' = "raised"
                        /\ escaped' = escaped \cup {exc}
                        /\ UNCHANGED <<scores, idx>>
                   ELSE /\ scores' = [scores EXCEPT
                                         ![idx + 1] = normalize_label(label.label)]
                        /\ idx' = idx + 1
                        /\ UNCHANGED <<epc, escaped>>
    /\ UNCHANGED <<evaluator, meteor, nclaims, idbase, row, util, util0,
                   responses, attempt, outcome>>
    /\ UNCHANGED <<dvars, rvars, pvars, avars>>

\* save_df(df, ...) after the loop
SavePredictions ==
    /\ evaluator = "predict_labels"
    /\ epc = "predict"
    /\ idx = nclaims
    /\ outcome' = [st |-> "saved", scores |-> scores, recall |-> <<>>]
    /\ epc' = "done"
    /\ UNCHANGED <<evaluator, meteor, nclaims, idbase, row, idx, util, util0,
                   scores, responses, attempt, last, escaped>>
    /\ UNCHANGED <<dvars, rvars, pvars, avars>>

\* compute_ev2r_score over frames whose ClaimID column starts at 0 or at 1,
\* a script that calls the QA generator, or predict_labels.main over a frame
\* without predicted labels.
InitJudged ==
    /\ evaluator \in Judges \cup Generators \cup {"predict_labels"}
    /\ meteor = <<>>
    /\ nclaims \in (IF evaluator = "predict_labels" THEN 1..MaxClaims ELSE {0})
    /\ idbase \in (IF evaluator \in Judges THEN {0, 1} ELSE {0})
    /\ row = NoRow
    /\ idx = 0
    /\ epc = (IF evaluator \in Judges THEN "prompt"
              ELSE IF evaluator \in Generators THEN "call" ELSE "predict")
    /\ util = NoUtil
    /\ util0 = NoUtil
    /\ scores = [k \in 1..nclaims |-> "None"]
    /\ responses = <<>>
    /\ attempt = 0
    /\ last = NoLast
    /\ outcome = NotReturned
    /\ escaped = {}

InitJudge ==
    ResolverIdle /\ RetrievalIdle /\ InitJudged /\ PipelineIdle /\ AuxIdle

NextJudge ==
    \/ PromptSample
    \/ QueryAttempt
    \/ GiveUp
    \/ FinishPrompt
    \/ CalculateScore
    \/ FinishCalc
    \/ ExtractRecall
    \/ ExtractRow
    \/ FinishExtract
    \/ GenerateCall
    \/ StoreQAPairs
    \/ CallAgain
    \/ PredictLabel
    \/ SavePredictions

SpecJudge == InitJudge /\ [][NextJudge]_vars

----------------------------------------------------------------------------
(* Claims about the judged scorer and the model calls, checked under
   SpecJudge *)

\* C14: for every claim and every reporting level the indicator is 1 exactly
\* when the claim's own evidence utility (for the judged scorer: the recall
\* the judge gave for that claim, zero when it gave none) is strictly above
\* the level and the predicted label equals the reference label, and 0
\* otherwise.
C14_IndicatorOfOwnUtility ==
    /\ last.kind = "ev2r" =>
           \A j \in 1..Len(ev2r_reporting_levels) :
               last.ind[j] =
                   (IF /\ Exceeds(last.own, ev2r_reporting_levels[j])
                       /\ last.predicted_label = last.normalized_label
                    THEN 1 ELSE 0)
    /\ last.kind = "indicator" =>
           \A j \in 1..Len(averitec_reporting_levels) :
               last.ind[j] =
                   (IF /\ Exceeds(last.score, averitec_reporting_levels[j])
                       /\ last.predicted_label = last.normalized_label
                    THEN 1 ELSE 0)

\* extract_ev2r_score has set the indicator of a row whose ClaimID is not its
\* place in the frame, and the judge scored the row above the level.
C14_Witness ==
    /\ last.kind = "ev2r"
    /\ idbase = 1
    /\ last.i >= 1
    /\ \E j \in 1..Len(ev2r_reporting_levels) :
           Exceeds(last.own, ev2r_reporting_levels[j])
    /\ last.predicted_label = last.normalized_label

\* C15: every per-claim score list the judged scorer returns
\* (extract_recall_score, extract_ev2r_score) has exactly one entry per input
\* claim, a claim whose judge calls were exhausted or whose response was
\* malformed being kept with a zero score.
C15_OneEntryPerClaim ==
    (evaluator \in Judges /\ outcome.st = "returned") =>
        Len(outcome.recall) = nclaims

\* extract_recall_score has returned after the attempts of a claim were
\* exhausted.
C15_Witness ==
    /\ evaluator = "ev2r_q"
    /\ outcome.st = "returned"
    /\ Len(responses) < nclaims

\* The judge's object has both count pairs and no facts count of 0.
WellFormed(response) ==
    /\ response.kind = "json"
    /\ response.pred.present /\ response.pred.facts # 0
    /\ response.ref.present /\ response.ref.facts # 0

\* C16: a malformed or incomplete judge response (an error value instead of
\* the object, a missing count field, a facts count of 0) makes the score of
\* that response None and nothing is raised out of calculate_question_scores
\* / calculate_prediction_scores; the scores computed before it stay as they
\* were, and a well-formed response gets its recall.
C16_MalformedGivesNoneOnly ==
    /\ (evaluator \in Judges) => epc # "raised"
    /\ last.kind = "calc" =>
           /\ ~last.raised
           /\ Len(scores) = Len(last.before) + 1
           /\ SubSeq(scores, 1, Len(last.before)) = last.before
           /\ LET response == last.response_llm.response
                  score == scores[Len(scores)]
              IN IF WellFormed(response)
                 THEN /\ score # None
                      /\ score.row = last.response_llm.row
                      /\ score.recall.num * response.ref.facts
                           = response.ref.support * ScoreUnit * score.recall.den
                 ELSE score = None

\* A response with a facts count of 0 was scored after another claim had got
\* its recall.
C16_Witness ==
    /\ last.kind = "calc"
    /\ last.response_llm.response.kind = "json"
    /\ last.response_llm.response.ref.present
    /\ last.response_llm.response.ref.facts = 0
    /\ Len(last.before) >= 1
    /\ last.before[1] # None
    /\ scores[Len(scores)] = None

\* C17: no exception escapes a model call (query_claude_sonnet_api,
\* generate_qa_pairs, generate_evidence_qa_pairs), whatever the client raises
\* or returns, a ValueError raised before any response exists included: the
\* call returns the parsed object or a value with an error field.
C17_ModelCallNeverRaises ==
    /\ "UnboundLocalError" \notin escaped
    /\ last.kind = "call" => last.value.kind \in {"json", "error"}

\* The client of the QA generator raised ValueError and the call did not
\* return.
C17_Witness ==
    /\ evaluator \in Generators
    /\ last.kind = "call"
    /\ last.client = "value_error"
    /\ epc = "raised"

----------------------------------------------------------------------------
(* Orchestration: FactCheckingPipeline.run and the knowledge-store loop *)

MaxRunClaims == 3
MaxBatchSize == 2
MaxStoreClaims == 11

\* retrieve_potential_evidence: BATCH_SIZE = 10
BATCH_SIZE == 10

\* The keys of self.results and the checkpoint files, in the order of run.
StepKeys ==
    <<"claims", "gold_evidence", "retrieved_evidence", "predictions",
      "evaluation">>

StepFiles ==
    <<"collected_claims.json", "gold_evidence.json",
      "retrieved_evidence.json", "predictions.json",
      "evaluation_results.json">>

StepPc == <<"step1", "step2", "step3", "step4", "step5">>

NumSteps == Len(StepKeys)

\* The steps that work through the claims in batches.
BatchSteps == {2, 3, 4}

\* The steps with a _load_existing_* function.
LoadableSteps == {1, 2, 3, 4}

AfterStep(k) == IF k < NumSteps THEN StepPc[k + 1] ELSE "save"

Ev(e, k) == [ev |-> e, step |-> k]

Started(k) == \E p \in 1..Len(events) : events[p] = Ev("start", k)

StartIfFirst(k) == IF Started(k) THEN <<>> ELSE <<Ev("start", k)>>

\* for i in range(0, len(claims), self.config.batch_size): batches left
MoreBatches == item * config.batch_size < nitems

\* _load_existing_*: the content of the checkpoint file, or
\* ConfigurationError when it does not exist.
load_existing_lenient(f, fs) == [exc |-> "none"]

load_existing(f, fs) ==
    IF f \in fs THEN [exc |-> "none"] ELSE [exc |-> "ConfigurationError"]

\* _save_error_state: error_state.json with list(self.results.keys())
save_error_state_empty(keys) ==
    [written |-> TRUE, completed_steps |-> <<>>]

save_error_state(keys) ==
    [written |-> TRUE, completed_steps |-> keys]

\* An exception inside the try block of run: control goes to the handler;
\* item stays at the number of batches the step had finished.
Raise(k) ==
    /\ ppc' = "except"
    /\ events' = events \o StartIfFirst(k) \o <<Ev("raise", k)>>
    /\ UNCHANGED <<files, run_results, nitems, item>>

\* validate_config()
ValidateConfig ==
    /\ pmode = "run"
    /\ ppc = "validate"
    /\ \/ /\ ppc' = "step1"
          /\ UNCHANGED <<events, item, files, run_results, nitems>>
       \/ /\ ppc' = "except"
          /\ events' = Append(events, Ev("raise", 0))
          /\ UNCHANGED <<item, files, run_results, nitems>>
    /\ UNCHANGED <<pmode, config, error_state, store, saved, tries, seen>>
    /\ UNCHANGED <<dvars, rvars, evars, avars>>

\* Step 1 enabled: _collect_claims writes collected_claims.json and run
\* records the claims.
CollectClaims ==
    /\ pmode = "run"
    /\ ppc = StepPc[1]
    /\ config.enabled[1]
    /\ \/ \E n \in 0..MaxRunClaims :
              /\ nitems' = n
              /\ files' = files \cup {StepFiles[1]}
              /\ run_results' = Append(run_results, StepKeys[1])
              /\ events' = events \o <<Ev("start", 1), Ev("wrote", 1),
                                       Ev("recorded", 1)>>
              /\ ppc' = AfterStep(1)
              /\ UNCHANGED item
       \/ Raise(1)
    /\ UNCHANGED <<pmode, config, error_state, store, saved, tries, seen>>
    /\ UNCHANGED <<dvars, rvars, evars, avars>>

\* A disabled step among the first four: run records what
\* _load_existing_* returns.
LoadExisting ==
    /\ pmode = "run"
    /\ \E k \in LoadableSteps :
           /\ ppc = StepPc[k]
           /\ ~config.enabled[k]
           /\ IF load_existing(StepFiles[k], files).exc = "none"
              THEN /\ run_results' = Append(run_results, StepKeys[k])
                   /\ events' = events \o
                         <<Ev("start", k),
                           Ev(IF StepFiles[k] \in files
                              THEN "loaded" ELSE "loaded_nothing", k),
                           Ev("recorded", k)>>
                   /\ ppc' = AfterStep(k)
                   /\ IF k = 1
                      THEN \E n \in 0..MaxRunClaims : nitems' = n
                      ELSE UNCHANGED nitems
                   /\ UNCHANGED <<files, item>>
              ELSE Raise(k)
    /\ UNCHANGED <<pmode, config, error_state, store, saved, tries, seen>>
    /\ UNCHANGED <<dvars, rvars, evars, avars>>

\* Steps 2 to 4 enabled, one batch: extract_evidence_batch,
\* retrieve_evidence_batch or predict_batch, and dict.update.
ProcessBatch ==
    /\ pmode = "run"
    /\ \E k \in BatchSteps :
           /\ ppc = StepPc[k]
           /\ config.enabled[k]
           /\ MoreBatches
           /\ \/ /\ item' = item + 1
                 /\ events' = events \o StartIfFirst(k)
                 /\ UNCHANGED <<ppc, files, run_results, nitems>>
              \/ Raise(k)
    /\ UNCHANGED <<pmode, config, error_state, store, saved, tries, seen>>
    /\ UNCHANGED <<dvars, rvars, evars, avars>>

\* Steps 2 to 4 enabled, after the last batch: the step's file is written
\* and run records the result.
WriteStep ==
    /\ pmode = "run"
    /\ \E k \in BatchSteps :
           /\ ppc = StepPc[k]
           /\ config.enabled[k]
           /\ ~MoreBatches
           /\ \/ /\ files' = files \cup {StepFiles[k]}
                 /\ run_results' = Append(run_results, StepKeys[k])
                 /\ events' = events \o StartIfFirst(k)
                                     \o <<Ev("wrote", k), Ev("recorded", k)>>
                 /\ ppc' = AfterStep(k)
                 /\ item' = 0
                 /\ UNCHANGED nitems
              \/ Raise(k)
    /\ UNCHANGED <<pmode, config, error_state, store, saved, tries, seen>>
    /\ UNCHANGED <<dvars, rvars, evars, avars>>

\* Step 5 enabled: _evaluate writes evaluation_results.json.
Evaluate ==
    /\ pmode = "run"
    /\ ppc = StepPc[NumSteps]
    /\ config.enabled[NumSteps]
    /\ \/ /\ files' = files \cup {StepFiles[NumSteps]}
          /\ run_results' = Append(run_results, StepKeys[NumSteps])
          /\ events' = events \o <<Ev("start", NumSteps),
                                   Ev("wrote", NumSteps),
                                   Ev("recorded", NumSteps)>>
          /\ ppc' = AfterStep(NumSteps)
          /\ UNCHANGED <<item, nitems>>
       \/ Raise(NumSteps)
    /\ UNCHANGED <<pmode, config, error_state, store, saved, tries, seen>>
    /\ UNCHANGED <<dvars, rvars, evars, avars>>

\* Step 5 disabled: 'if self.config.evaluate_results' has no else branch.
SkipEvaluate ==
    /\ pmode = "run"
    /\ ppc = StepPc[NumSteps]
    /\ ~config.enabled[NumSteps]
    /\ ppc' = AfterStep(NumSteps)
    /\ events' = Append(events, Ev("skipped", NumSteps))
    /\ UNCHANGED <<item, files, run_results, nitems>>
    /\ UNCHANGED <<pmode, config, error_state, store, saved, tries, seen>>
    /\ UNCHANGED <<dvars, rvars, evars, avars>>

\* _save_pipeline_results, then return self.results
SavePipelineResults ==
    /\ pmode = "run"
    /\ ppc = "save"
    /\ \/ /\ files' = files \cup {"pipeline_summary.json"}
          /\ ppc' = "returned"
          /\ events' = Append(events, Ev("returned", 0))
          /\ UNCHANGED <<item, run_results, nitems>>
       \/ /\ ppc' = "except"
          /\ events' = Append(events, Ev("raise", NumSteps + 1))
          /\ UNCHANGED <<item, files, run_results, nitems>>
    /\ UNCHANGED <<pmode, config, error_state, store, saved, tries, seen>>
    /\ UNCHANGED <<dvars, rvars, evars, avars>>

\* except Exception as e: self._save_error_state(str(e)); raise
\* FactCheckerError(error_msg) from e
HandleError ==
    /\ pmode = "run"
    /\ ppc = "except"
    /\ error_state' = save_error_state(run_results)
    /\ files' = files \cup {"error_state.json"}
    /\ events' = events \o <<Ev("error_state", 0), Ev("FactCheckerError", 0)>>
    /\ ppc' = "raised"
    /\ UNCHANGED <<pmode, config, run_results, nitems, item, store, saved,
                   tries, seen>>
    /\ UNCHANGED <<dvars, rvars, evars, avars>>

\* status_command for the run directory: error_state.json is looked for
\* first, then pipeline_summary.json, whose "timing" was written before run
\* set its "total_pipeline" entry.
status_command(fs) ==
    IF "error_state.json" \in fs
      THEN [reported |-> "FAILED", exc |-> NoException]
    ELSE IF "pipeline_summary.json" \in fs
      THEN [reported |-> "COMPLETED", exc |-> "KeyError"]
    ELSE [reported |-> "IN_PROGRESS", exc |-> NoException]

\* The status command is given the run id after the run has ended.
StatusCommand ==
    /\ pmode = "run"
    /\ ppc \in {"returned", "raised"}
    /\ status = NoStatus
    /\ status' = status_command(files)
    /\ UNCHANGED <<result, claim_text, verdict, qvars>>
    /\ UNCHANGED <<dvars, rvars, evars, pvars>>

\* After a failed run the pipeline is run again with the same configuration
\* and run_id: a new FactCheckingPipeline on the same run directory, with
\* empty results.
RunAgain ==
    /\ pmode = "run"
    /\ ppc = "raised"
    /\ ppc' = "validate"
    /\ run_results' = <<>>
    /\ events' = <<>>
    /\ nitems' = 0
    /\ item' = 0
    /\ status' = NoStatus
    /\ UNCHANGED <<pmode, config, files, error_state, store, saved, tries,
                   seen>>
    /\ UNCHANGED <<result, claim_text, verdict, qvars>>
    /\ UNCHANGED <<dvars, rvars, evars>>

\* retries = 0
FirstTry_kept(r) == r

FirstTry(r) == 0

\* retrieve_potential_evidence, the head of the loop over a batch: the claim
\* is skipped for a missing date or text, date_parse raises on its
\* claimDate, outside any try, or its searches begin with retries = 0.
StoreClaim ==
    /\ pmode = "store"
    /\ ppc = "loop"
    /\ item < MaxStoreClaims
    /\ nitems' = item + 1
    /\ events' = <<>>
    /\ \/ /\ item' = item + 1
          /\ UNCHANGED <<ppc, tries, seen>>
       \/ /\ ppc' = "search"
          /\ tries' = FirstTry(tries)
          /\ seen' = Append(seen, item + 1)
          /\ UNCHANGED item
       \/ /\ ppc' = "raised"
          /\ UNCHANGED <<item, tries, seen>>
    /\ UNCHANGED <<pmode, config, files, run_results, error_state, store,
                   saved>>
    /\ UNCHANGED <<dvars, rvars, evars, avars>>

\* One turn of 'while retries < MAX_RETRIES': the search and the loop over
\* its results end with break, or an exception is counted and slept on.
StoreSearch ==
    /\ pmode = "store"
    /\ ppc = "search"
    /\ LoopAgain(tries)
    /\ \/ /\ ppc' = "append"
          /\ events' = Append(events, Ev("break", item + 1))
          /\ UNCHANGED tries
       \/ /\ tries' = tries + 1
          /\ events' = Append(events, Ev("except", item + 1))
          /\ UNCHANGED ppc
    /\ UNCHANGED <<pmode, config, files, run_results, error_state, nitems,
                   item, store, saved, seen>>
    /\ UNCHANGED <<dvars, rvars, evars, avars>>

\* After the while loop, left by break or by its condition:
\* knowledge_store.append(...)
StoreAppend ==
    /\ pmode = "store"
    /\ \/ ppc = "append"
       \/ ppc = "search" /\ ~LoopAgain(tries)
    /\ store' = Append(store, item + 1)
    /\ item' = item + 1
    /\ ppc' = "loop"
    /\ UNCHANGED <<pmode, config, files, run_results, events, error_state,
                   nitems, saved, tries, seen>>
    /\ UNCHANGED <<dvars, rvars, evars, avars>>

\* After the loops: save_to_file(knowledge_store, "knowledge_store.json")
StoreSave ==
    /\ pmode = "store"
    /\ ppc = "loop"
    /\ item = nitems
    /\ saved' = store
    /\ ppc' = "returned"
    /\ UNCHANGED <<pmode, config, files, run_results, events, error_state,
                   nitems, item, store, tries, seen>>
    /\ UNCHANGED <<dvars, rvars, evars, avars>>

CheckpointFiles == {StepFiles[k] : k \in LoadableSteps}

\* A pipeline object for a run directory that may hold checkpoint files of
\* an earlier run with the same run_id, or a call of
\* retrieve_potential_evidence.
InitOrchestration ==
    /\ pmode \in {"run", "store"}
    /\ IF pmode = "run"
       THEN /\ config \in [enabled : [1..NumSteps -> BOOLEAN],
                           batch_size : 1..MaxBatchSize]
            /\ files \in SUBSET CheckpointFiles
            /\ ppc = "validate"
       ELSE /\ config = NoConfig
            /\ files = {}
            /\ ppc = "loop"
    /\ run_results = <<>>
    /\ events = <<>>
    /\ error_state = NoErrorState
    /\ nitems = 0
    /\ item = 0
    /\ store = <<>>
    /\ saved = <<>>
    /\ tries = 0
    /\ seen = <<>>

InitPipeline ==
    ResolverIdle /\ RetrievalIdle /\ EvalIdle /\ InitOrchestration /\ AuxIdle

NextPipeline ==
    \/ ValidateConfig
    \/ CollectClaims
    \/ LoadExisting
    \/ ProcessBatch
    \/ WriteStep
    \/ Evaluate
    \/ SkipEvaluate
    \/ SavePipelineResults
    \/ HandleError
    \/ StatusCommand
    \/ RunAgain
    \/ StoreClaim
    \/ StoreSearch
    \/ StoreAppend
    \/ StoreSave

SpecPipeline == InitPipeline /\ [][NextPipeline]_vars

----------------------------------------------------------------------------
(* Claims about the orchestration, checked under SpecPipeline *)

Range(list) == {list[i] : i \in 1..Len(list)}

\* The keys recorded in self.results before place p of the log.
RecordedBefore(p) ==
    LET recs == SelectSeq(SubSeq(events, 1, p - 1),
                          LAMBDA e : e.ev = "recorded")
    IN [i \in 1..Len(recs) |-> StepKeys[recs[i].step]]

\* C18: when a step raises inside FactCheckingPipeline.run no later step
\* executes, error_state.json is written before the error is re-raised as
\* FactCheckerError, and its completed_steps are exactly the steps whose
\* results were recorded before the failure.
C18_ErrorStateBeforeReraise ==
    \A p \in 1..Len(events) :
        events[p].ev = "raise" =>
            /\ \A q \in (p + 1)..Len(events) :
                   events[q].ev \in {"error_state", "FactCheckerError"}
            /\ run_results = RecordedBefore(p)
            /\ ppc \in {"except", "raised"}
            /\ ppc = "raised" =>
                   /\ Len(events) = p + 2
                   /\ events[p + 1].ev = "error_state"
                   /\ events[p + 2].ev = "FactCheckerError"
                   /\ "error_state.json" \in files
                   /\ error_state.written
                   /\ error_state.completed_steps = RecordedBefore(p)

\* The third step raised after two results had been recorded, and run has
\* raised FactCheckerError.
C18_Witness ==
    /\ ppc = "raised"
    /\ pmode = "run"
    /\ \E p \in 1..Len(events) : events[p] = Ev("raise", 3)
    /\ error_state.completed_steps = <<"claims", "gold_evidence">>

\* C19: the accumulated output is persisted after each batch: when
\* processing stops during batch k >= 2, the results of batches 1..k-1 are
\* on disk (the knowledge store for retrieve_potential_evidence, the step's
\* file for a batch step of the pipeline).
C19_PartialOutputOnDisk ==
    /\ (pmode = "store" /\ ppc = "raised" /\ item >= BATCH_SIZE) =>
           \A i \in 1..Len(store) :
               store[i] <= BATCH_SIZE * (item \div BATCH_SIZE) =>
                   store[i] \in Range(saved)
    /\ (pmode = "run" /\ ppc \in {"except", "raised"} /\ item >= 1) =>
           \A k \in BatchSteps :
               Ev("raise", k) \in Range(events) =>
                   Ev("wrote", k) \in Range(events)

\* retrieve_potential_evidence stopped in its second batch with results of
\* the first batch in the list and nothing saved.
C19_Witness ==
    /\ pmode = "store"
    /\ ppc = "raised"
    /\ item >= BATCH_SIZE
    /\ \E i \in 1..Len(store) : store[i] <= BATCH_SIZE
    /\ saved = <<>>

\* The run is past its last step.
PastSteps == pmode = "run" /\ ppc \in {"save", "returned"}

\* The steps start in the fixed order, each after the result of the step
\* before it was recorded, an enabled step having written its file first.
StepsInOrder ==
    /\ \A p \in 1..Len(events) :
           (events[p].ev = "start" /\ events[p].step > 1) =>
               LET j == events[p].step - 1
               IN /\ \E q \in 1..(p - 1) : events[q] = Ev("recorded", j)
                  /\ config.enabled[j] =>
                         \E q \in 1..(p - 1) : events[q] = Ev("wrote", j)
    /\ \A p \in 1..Len(events) :
           (events[p].ev = "recorded" /\ config.enabled[events[p].step]) =>
               events[p - 1] = Ev("wrote", events[p].step)
    /\ \A p, q \in 1..Len(events) :
           (p < q /\ events[p].ev = "start" /\ events[q].ev = "start") =>
               events[p].step < events[q].step
    /\ \E n \in 0..NumSteps :
           /\ Len(run_results) = n
           /\ \A i \in 1..n : run_results[i] \in Range(StepKeys)
           /\ \A i, j \in 1..n :
                  i < j => \E a, b \in 1..NumSteps :
                               /\ a < b
                               /\ StepKeys[a] = run_results[i]
                               /\ StepKeys[b] = run_results[j]

\* A disabled step of the set S has taken its result from its checkpoint
\* file whenever the run went past it, the run failing when the file is
\* missing.
DisabledStepsLoad(S) ==
    /\ \A p \in 1..Len(events) : events[p].ev # "loaded_nothing"
    /\ \A k \in S :
           (~config.enabled[k] /\ Ev("recorded", k) \in Range(events)) =>
               Ev("loaded", k) \in Range(events)
    /\ PastSteps =>
           \A k \in S :
               ~config.enabled[k] =>
                   /\ Ev("loaded", k) \in Range(events)
                   /\ StepKeys[k] \in Range(run_results)

\* C20, as stated: run executes its steps in the fixed order, a step starts
\* only after the previous step's result is recorded, each enabled step
\* writes its checkpoint file before the next step starts, and every
\* disabled step takes its result from the run's checkpoint file, the run
\* failing if the file is missing.
C20_EveryDisabledStepLoads ==
    (pmode = "run") => (StepsInOrder /\ DisabledStepsLoad(1..NumSteps))

\* C20, amended: the same for the first four steps; a disabled evaluation
\* step is skipped, nothing is loaded or recorded for it and the run does
\* not fail on its account.
C20_DisabledStepLoadsOrIsSkipped ==
    (pmode = "run") =>
        /\ StepsInOrder
        /\ DisabledStepsLoad(LoadableSteps)
        /\ ~config.enabled[NumSteps] =>
               /\ StepKeys[NumSteps] \notin Range(run_results)
               /\ Ev("raise", NumSteps) \notin Range(events)
               /\ PastSteps => Ev("skipped", NumSteps) \in Range(events)

\* A run returned with a loaded step, a computed step and the evaluation
\* disabled.
C20_Witness ==
    /\ pmode = "run"
    /\ ppc = "returned"
    /\ ~config.enabled[2]
    /\ config.enabled[3]
    /\ ~config.enabled[NumSteps]
    /\ run_results = <<"claims", "gold_evidence", "retrieved_evidence",
                       "predictions">>

----------------------------------------------------------------------------
(* Claims about the QA-generation scripts, checked under SpecJudge *)

\* C21: when the model response for one claim is malformed or the model call
\* fails, QA generation stores an error marker or an empty value for that
\* claim and goes on with the remaining claims; the run is not aborted.
C21_GenerationDegradesOneClaim ==
    (evaluator \in Generators /\ last.kind \in {"call", "stored"}
        /\ last.client # "json") =>
        /\ epc # "raised"
        /\ last.kind = "stored" => last.stored \in {"error", "None"}

\* The script had stored the QA pairs of one claim when the model answered
\* the next one without JSON, and KeyError left main.
C21_Witness ==
    /\ evaluator \in Generators
    /\ last.kind = "stored"
    /\ last.client = "no_json"
    /\ epc = "raised"
    /\ "KeyError" \in escaped
    /\ responses = <<"qa_pairs">>

----------------------------------------------------------------------------
(* Claims about the batch loop, checked under SpecPipeline *)

\* The attempts of the claim being searched that raised.
Excepts == Len(SelectSeq(events, LAMBDA e : e.ev = "except"))

----------------------------------------------------------------------------
(* Claims about the cap of the assignment scorer, checked under SpecEval *)

\* The predicted entries that count: the non-empty ones, and for
\* evaluate_questions_only their distinct questions.
Counted(qa_pairs) ==
    IF evaluator = "questions" THEN Questions(qa_pairs, <<>>)
    ELSE Strings(qa_pairs)

Front(list) == SubSeq(list, 1, Len(list) - 1)

\* The similarity matrix has at most max_questions rows.
RowsUnderCap ==
    (evaluator \in Scorers /\ epc \in {"scored", "extended"}) =>
        Len(SrcStrings(row)) <= max_questions

\* C23, as stated: the similarity matrix never has more than max_questions
\* rows, and a predicted item appended after the first max_questions
\* predicted items leaves the utility of the claim unchanged.
C23_AppendedItemIgnored ==
    /\ RowsUnderCap
    /\ epc = "extended" => SameUtility(util, util0)

\* C23, amended: the same when max_questions of the predicted items before
\* the appended one count.
C23_AppendedItemIgnoredWhenCapFull ==
    /\ RowsUnderCap
    /\ (epc = "extended" /\ Len(Counted(Front(row.src))) >= max_questions) =>
           SameUtility(util, util0)

\* An item equal to the reference was appended after max_questions items
\* that do not match it, and the utility stayed 0.
C23_Witness ==
    /\ evaluator = "averitec"
    /\ epc = "extended"
    /\ Len(Counted(Front(row.src))) >= max_questions
    /\ row.src[Len(row.src)] = "b"
    /\ TgtStrings(row) = <<"b">>
    /\ meteor[<<"b", "b">>] = ScoreUnit
    /\ meteor[<<"a", "b">>] = 0
    /\ util.num = 0
    /\ util0.num = 0

----------------------------------------------------------------------------
(* The relevance filter: is_relevant_result with                           *)
(* process_arabic_claim_for_search                                         *)

MaxClaimWords == 2

max_keywords == 5

\* The words of the model; a text is the set of the words that occur in it,
\* and no word of the model is part of another:
\*   "ar1" .. "ar6"  Arabic words of more than 2 letters, in no list;
\*   "ar2."          the word ar2 followed by a full stop;
\*   "min"           an Arabic stop word of 2 letters;
\*   "alladhi"       an Arabic stop word of 4 letters;
\*   "BBC", "bbc"    a Latin word in upper case, and its lower-case form;
\*   "google"        a term of the block list.
ArabicWords ==
    {"ar1", "ar2", "ar3", "ar4", "ar5", "ar6", "ar2.", "min", "alladhi"}

stop_words == {"min", "alladhi"}

irrelevant_indicators == {"google"}

\* The words with len(word) <= 2.
ShortWords == {"min"}

\* str.lower(), of a word and of a text
Lower(w) == IF w = "BBC" THEN "bbc" ELSE w

LowerText(text) == {Lower(w) : w \in text}

\* re.sub(r"[...]", "", word): the punctuation is removed.
CleanWord(w) == IF w = "ar2." THEN "ar2" ELSE w

\* The loop over words: a cleaned word that is longer than 2 characters and
\* not a stop word is appended to keywords.
RECURSIVE KeywordList(_, _)
KeywordList(words, keywords) ==
    IF words = <<>> THEN keywords
    ELSE LET clean_word == CleanWord(Head(words))
         IN  KeywordList(Tail(words),
                 IF clean_word \notin ShortWords /\ clean_word \notin stop_words
                   THEN Append(keywords, clean_word)
                   ELSE keywords)

\* process_arabic_claim_for_search(claim_text): keywords[:max_keywords]. The
\* introductory phrase it removes consists of stop words.
process_arabic_claim_for_search(text) ==
    LET keywords == KeywordList(text, <<>>)
    IN  SubSeq(keywords, 1, Smaller(Len(keywords), max_keywords))

\* result.get(key, "")
Get(r, key) == IF key \in DOMAIN r THEN r[key] ELSE {}

\* What is_relevant_result reads of a hit, for a claim text: title, body and
\* href in lower case, against the block list, the Arabic pattern and the
\* claim's keywords.
ReadOfHit(r, text) ==
    LET claim_keywords == Range(process_arabic_claim_for_search(text))
        title == LowerText(Get(r, "title"))
        snippet == LowerText(Get(r, "body"))
        url == LowerText(Get(r, "href"))
    IN  [blocked |-> (title \cup snippet \cup url) \cap irrelevant_indicators # {},
         arabic |-> (title \cup snippet) \cap ArabicWords # {},
         matches |-> Cardinality(claim_keywords \cap (title \cup snippet))]

\* A hit of DDGS().text, as retrieve_external_evidence gets it, and a hit of
\* DuckDuckGoSearchResults(output_format="list"), as
\* retrieve_external_evidence_lc gets it.
DdgsHit(t, s, u) == [title |-> t, body |-> s, href |-> u]

LangchainHit(t, s, u) == [title |-> t, snippet |-> s, link |-> u]

TitleWords == {"ar1", "ar2", "BBC", "google"}

SnippetWords == {"ar2", "BBC", "google"}

UrlTexts == {{}, {"google"}}

SearchHits ==
    {DdgsHit(t, s, u) :
        t \in SUBSET TitleWords, s \in SUBSET SnippetWords, u \in UrlTexts}
    \cup
    {LangchainHit(t, s, u) :
        t \in SUBSET TitleWords, s \in SUBSET SnippetWords, u \in UrlTexts}

ClaimWords == {"ar1", "ar2.", "min", "alladhi", "BBC"}

\* The claim texts: the short ones, and one with six keywords.
ClaimTexts ==
    UNION {[1..n -> ClaimWords] : n \in 0..MaxClaimWords}
        \cup {<<"ar1", "ar3", "ar4", "ar5", "ar6", "ar2">>}

\* is_relevant_result(result, claim_text) is called.
Filter ==
    /\ verdict = "none"
    /\ verdict' = (IF is_relevant_result([text |-> ReadOfHit(result, claim_text)])
                     THEN "accept" ELSE "reject")
    /\ UNCHANGED <<result, claim_text, status, qvars>>
    /\ UNCHANGED <<dvars, rvars, evars, pvars>>

InitFiltered ==
    /\ result \in SearchHits
    /\ claim_text \in ClaimTexts
    /\ verdict = "none"
    /\ status = NoStatus

InitFilter ==
    /\ ResolverIdle /\ RetrievalIdle /\ EvalIdle /\ PipelineIdle
    /\ InitFiltered /\ QueryIdle

NextFilter == Filter

SpecFilter == InitFilter /\ [][NextFilter]_vars

----------------------------------------------------------------------------
(* Claims about the relevance filter, checked under SpecFilter *)

\* The snippet and the URL of a hit, under the key its source gives them.
Snippet(r) == IF "body" \in DOMAIN r THEN r.body ELSE r.snippet

Url(r) == IF "href" \in DOMAIN r THEN r.href ELSE r.link

\* The keywords of the claim that occur in the title or the snippet.
KeywordsIn(r, text) ==
    Range(process_arabic_claim_for_search(text)) \cap (r.title \cup Snippet(r))

\* C24: is_relevant_result accepts a hit if and only if no block-list term
\* occurs in its title, snippet or URL, its title+snippet contains Arabic
\* script, and at least 2 of the claim's keywords occur in title+snippet.
C24_AcceptsExactlyRelevantHits ==
    verdict # "none" =>
        (verdict = "accept" <=>
            /\ (result.title \cup Snippet(result) \cup Url(result))
                   \cap irrelevant_indicators = {}
            /\ (result.title \cup Snippet(result)) \cap ArabicWords # {}
            /\ Cardinality(KeywordsIn(result, claim_text)) >= 2)

\* A hit of retrieve_external_evidence_lc whose snippet holds a block-list
\* term was accepted on its title.
C24_Witness ==
    /\ verdict = "accept"
    /\ "snippet" \in DOMAIN result
    /\ result.snippet \cap irrelevant_indicators # {}
    /\ Cardinality(KeywordsIn(result, claim_text)) >= 2

----------------------------------------------------------------------------
(* Claims about retrieve_external_evidence_lc, checked under SpecLc: the   *)
(* call alone                                                              *)

InitLc == Init /\ mode = "lc"

NextLc ==
    \/ LcInvoke
    \/ LcHit
    \/ LcEnd
    \/ LcReturn

SpecLc == InitLc /\ [][NextLc]_vars

\* The elements of the list that the loop has not visited yet.
LcRemaining == Len(results) - pos + 1

\* C25: retrieve_external_evidence_lc terminates for every finite list of
\* search hits, also when hits pass the relevance filter: the loop over the
\* hits reaches the end of the list, every iteration leaving fewer elements
\* to visit than the one before.
C25_LcLoopNearsEnd ==
    [][(pc = "l_loop" /\ pc' = "l_loop") => LcRemaining' < LcRemaining]_vars

\* The loop is at a record that it appended itself, and the record passes
\* the filter like the hit it was made from.
C25_Witness ==
    /\ mode = "lc"
    /\ pc = "l_loop"
    /\ pos > Len(hits)
    /\ pos <= Len(results)
    /\ results[pos].kind = "evidence"
    /\ is_relevant_result(hits[results[pos].hit])

----------------------------------------------------------------------------
(* Claims about the evidence list across retries, checked under Spec *)

\* The hits of the search point to different pages.
DistinctUrls ==
    \A i, j \in 1..Len(hits) : i # j => hits[i].page # hits[j].page

\* No hit occurs twice in the list.
NoUrlTwice(list) ==
    \A i, j \in 1..Len(list) : i # j => list[i].hit # list[j].hit

\* C26: when the hits of the search have distinct URLs, no URL occurs more
\* than once in the evidence list of a claim, in the list that is being
\* built, in the list retrieve_external_evidence returns and in the entry
\* the batch loop records, whatever attempts failed and were retried.
C26_NoUrlTwiceInEvidence ==
    (mode \in {"batch", "external"} /\ DistinctUrls) =>
        /\ NoUrlTwice(results)
        /\ NoUrlTwice(returned)
        /\ \A k \in 1..Len(knowledge_store) :
               NoUrlTwice(knowledge_store[k].evidences)

\* One attempt of retrieve_external_evidence failed after a hit was
\* accepted, the search was retried, and the returned list holds that hit
\* twice.
C26_Witness ==
    /\ mode = "external"
    /\ pc = "done"
    /\ DistinctUrls
    /\ log.raised = 1
    /\ Len(returned) >= 2
    /\ returned[1].hit = returned[2].hit

----------------------------------------------------------------------------
(* Claims about the rows of extract_ev2r_score, checked under SpecJudge *)

\* C27: the recall and the indicator that extract_ev2r_score stores for the
\* claim at row i are those of the judge result that was made for that
\* claim (recall zero when the judge gave none), whatever the ClaimID of
\* the rows.
C27_RowGetsOwnJudgeResult ==
    last.kind = "ev2r" =>
        /\ SameUtility(outcome.recall[last.i + 1], last.own)
        /\ outcome.scores[last.i + 1] =
               this_example_scores(last.own, ev2r_reporting_levels,
                                   last.predicted_label, last.normalized_label)

\* With ClaimIDs that start at 1, the second row has got the recall the
\* judge gave for the first row, which is not its own.
C27_Witness ==
    /\ last.kind = "ev2r"
    /\ idbase = 1
    /\ last.i = 1
    /\ OwnScore(scores, 0) # None
    /\ SameUtility(outcome.recall[2], OwnScore(scores, 0).recall)
    /\ ~SameUtility(outcome.recall[2], last.own)

----------------------------------------------------------------------------
(* Claims about the status of a run, checked under SpecPipeline *)

\* C28: the status reported for a run id is that of the most recent
\* execution under it: COMPLETED after an execution that returned, also
\* when an earlier execution under the same run id had failed, and FAILED
\* after one that raised.
C28_StatusOfLastExecution ==
    (pmode = "run" /\ status # NoStatus) =>
        /\ ppc = "returned" => status.reported = "COMPLETED"
        /\ ppc = "raised" => status.reported = "FAILED"

\* A run failed, was run again under the same run id and returned, and the
\* status command was given the run id.
C28_Witness ==
    /\ pmode = "run"
    /\ ppc = "returned"
    /\ error_state.written
    /\ {"error_state.json", "pipeline_summary.json"} \subseteq files
    /\ status # NoStatus

----------------------------------------------------------------------------
(* ClaimRetriever.query_api *)

MaxQueryRetries == 5

initial_retry_delay == 1

\* What one request can come to: the claims, a body that reports error code
\* 503, raise_for_status raising HTTPError with a status below 500 or from
\* 500, another RequestException, any other exception.
RequestOutcomes ==
    {"claims", "unavailable", "HTTPError4xx", "HTTPError5xx",
     "RequestException", "Exception"}

QEv(kind, n) == [kind |-> kind, n |-> n]

\* attempt < self.max_retries - 1
SleepsBeforeRetry_always(a, m) == TRUE

SleepsBeforeRetry(a, m) == a < m - 1

\* time.sleep(retry_delay); retry_delay *= 2, when another attempt follows
Backoff ==
    IF SleepsBeforeRetry(query_attempt, max_retries)
      THEN [log |-> <<QEv("sleep", retry_delay)>>, delay |-> retry_delay * 2]
      ELSE [log |-> <<>>, delay |-> retry_delay]

\* One iteration of 'for attempt in range(self.max_retries)': the request,
\* and what follows from its outcome. RetrievalError raised in the try block
\* on the last attempt is caught by 'except Exception'.
QueryIteration ==
    /\ qpc = "loop"
    /\ query_attempt < max_retries
    /\ \E o \in RequestOutcomes :
          LET asked == qlog \o <<QEv("request", query_attempt), QEv(o, query_attempt)>>
          IN  IF o = "claims"
                THEN /\ qpc' = "returned"
                     /\ qlog' = asked
                     /\ UNCHANGED <<query_attempt, retry_delay, last_exception>>
              ELSE IF o = "HTTPError4xx"
                THEN /\ qpc' = "break"
                     /\ qlog' = asked
                     /\ last_exception' = "HTTPError"
                     /\ UNCHANGED <<query_attempt, retry_delay>>
              ELSE /\ qpc' = "loop"
                   /\ qlog' = asked \o Backoff.log
                   /\ retry_delay' = Backoff.delay
                   /\ query_attempt' = query_attempt + 1
                   /\ last_exception' =
                        (IF o = "unavailable"
                           THEN (IF SleepsBeforeRetry(query_attempt, max_retries)
                                   THEN last_exception ELSE "RetrievalError")
                         ELSE IF o = "HTTPError5xx" THEN "HTTPError"
                         ELSE o)
    /\ UNCHANGED <<max_retries, result, claim_text, verdict, status>>
    /\ UNCHANGED <<dvars, rvars, evars, pvars>>

\* After the loop: raise RetrievalError(error_msg) from last_exception
QueryRaise ==
    /\ \/ qpc = "loop" /\ query_attempt >= max_retries
       \/ qpc = "break"
    /\ qpc' = "raised"
    /\ qlog' = Append(qlog, QEv("RetrievalError", query_attempt))
    /\ UNCHANGED <<max_retries, query_attempt, retry_delay, last_exception,
                   result, claim_text, verdict, status>>
    /\ UNCHANGED <<dvars, rvars, evars, pvars>>

\* query_api(params) is entered on a retriever with some max_retries.
InitQueried ==
    /\ max_retries \in 0..MaxQueryRetries
    /\ query_attempt = 0
    /\ retry_delay = initial_retry_delay
    /\ last_exception = "None"
    /\ qpc = "loop"
    /\ qlog = <<>>

InitQuery ==
    /\ ResolverIdle /\ RetrievalIdle /\ EvalIdle /\ PipelineIdle
    /\ FilterIdle /\ InitQueried

NextQuery ==
    \/ QueryIteration
    \/ QueryRaise

SpecQuery == InitQuery /\ [][NextQuery]_vars

----------------------------------------------------------------------------
(* Claims about query_api, checked under SpecQuery *)

\* The places of the log where a request was sent.
Requests == {k \in 1..Len(qlog) : qlog[k].kind = "request"}

\* A measure of what is left of the call.
QueryRank ==
    IF qpc = "loop" THEN 2 + max_retries - query_attempt
    ELSE IF qpc = "break" THEN 1
    ELSE 0

\* C29: a call of query_api sends at most max_retries requests; no request
\* follows an HTTP error with a status below 500; no exception but the
\* final RetrievalError leaves the call, which ends by returning the
\* claims or by raising it (every step lowers a measure that is never
\* negative); and no sleep follows the last request.
C29_BoundedRetriesAndCleanEnd ==
    /\ [](/\ Cardinality(Requests) <= max_retries
          /\ \A k \in 1..Len(qlog) :
                 qlog[k].kind = "HTTPError4xx" =>
                     \A j \in Requests : j < k
          /\ qpc \in {"loop", "break", "returned", "raised"}
          /\ QueryRank >= 0
          /\ qpc \in {"returned", "raised"} =>
                 \A k \in 1..Len(qlog) :
                     qlog[k].kind = "sleep" => \E j \in Requests : j > k
          /\ qpc = "returned" => qlog[Len(qlog)].kind = "claims"
          /\ qpc = "raised" => qlog[Len(qlog)].kind = "RetrievalError")
    /\ [][QueryRank' < QueryRank]_vars

\* The three attempts of a call with max_retries of 3 failed, the last one
\* finding the service unavailable; the call slept twice and raised
\* RetrievalError.
C29_Witness ==
    /\ qpc = "raised"
    /\ max_retries = 3
    /\ Cardinality(Requests) = 3
    /\ Cardinality({k \in 1..Len(qlog) : qlog[k].kind = "sleep"}) = 2
    /\ last_exception = "RetrievalError"

----------------------------------------------------------------------------
(* Claims about label prediction, checked under SpecJudge *)

\* The answer is a JSON object with a label that labels_map knows.
KnownLabel(a) == a.kind = "object" /\ a.label \in DOMAIN labels_map

\* C30: when the model call for a claim fails, or its answer is not a JSON
\* object with a known label, the predicted_label of that claim is null and
\* the loop goes on: no exception leaves main, so that the labels are saved.
C30_FailedPredictionIsNull ==
    /\ (evaluator = "predict_labels" /\ last.kind = "predicted"
           /\ ~KnownLabel(last.answer)) =>
           /\ epc # "raised"
           /\ scores[last.i + 1] = "None"
    /\ (evaluator = "predict_labels" /\ outcome.st = "saved") =>
           Len(outcome.scores) = nclaims

\* The label of the first claim was predicted, the call for the second
\* claim failed, and TypeError left main before anything was saved.
C30_Witness ==
    /\ evaluator = "predict_labels"
    /\ epc = "raised"
    /\ last.kind = "predicted"
    /\ last.i = 1
    /\ last.answer.kind = "api_error"
    /\ scores[1] = "supported"
    /\ "TypeError" \in escaped
    /\ outcome.st # "saved"

====
